---- MODULE Spec2Model ----
(***************************************************************************)
(* A model of the DataFusion SQL parser extension (datafusion/sql/src/     *)
(* parser.rs): the statement dispatcher, the catalog resolver (USE), the   *)
(* file-scoped parse entry point and the process-wide resolution           *)
(* registries.                                                             *)
(*                                                                         *)
(* A text is modelled by its sequence of non-whitespace tokens.  The disk   *)
(* is unknown until the program looks at it: whether a path is a file is   *)
(* fixed at the first Path::is_file, what a file holds at the first        *)
(* fs::read_to_string; afterwards both stay as they were found.            *)
(***************************************************************************)
EXTENDS Integers, Sequences, FiniteSets, TLC

\* ------------------------------------------------------------------ bounds

MaxStmts == 2          \* statements per text (a file's or a caller's)
MaxSessions == 2       \* callers' threads per process
MaxCalls == 2          \* parse calls of the callers per process
MaxGrammarCalls == 1   \* the same, when the callers' texts are the grammar's
MaxClauses == 2        \* optional clauses of a CREATE EXTERNAL TABLE out of order

\* ------------------------------------------------------------------ tokens

EOF == "EOF"
SemiColon == ";"
Period == "."
Number == "1"
\* An unterminated string literal: the tokenizer fails on it.
Unterminated == "'"

LParen == "("
RParen == ")"
Comma == ","

Keywords ==
    {"USE", "SELECT", "CREATE", "DATABASE", "SCHEMA", "DESCRIBE", "TABLE", "EXTERNAL",
     "IF", "NOT", "EXISTS", "STORED", "AS", "WITH", "HEADER", "ROW", "DELIMITER",
     "COMPRESSION", "TYPE", "PARTITIONED", "BY", "OPTIONS", "LOCATION"}
\* Keywords in another letter case: the tokenizer knows them as it knows the
\* upper-case ones.
LowerKeywords == {"with", "header", "row", "Row"}
Idents == {"c", "d", "s", "t", "csv", "int", "GZIP", "p", "q", "k", "v", "x", "parqueT",
           "BZIP2", "XZ", "UNCOMPRESSED", "ZZZ"}
\* Token::Word: keywords and identifiers alike.
Words == Keywords \cup LowerKeywords \cup Idents
IsWord(tok) == tok \in Words

\* Token::SingleQuotedString: the literals of the texts, each with its value
\* as the sequence of its pieces (characters, for the short ones).
Strings == {"'foo.csv'", "'s3://foo'", "'|'", "'ab'", "'k'", "'v'", "''", "'é'", "'w'"}
IsString(tok) == tok \in Strings
StringValue(tok) ==
    CASE tok = "'foo.csv'" -> <<"foo", ".csv">>
      [] tok = "'s3://foo'" -> <<"s3://", "foo">>
      [] tok = "'|'" -> <<"|">>
      [] tok = "'ab'" -> <<"a", "b">>
      [] tok = "'k'" -> <<"k">>
      [] tok = "'v'" -> <<"v">>
      [] tok = "'w'" -> <<"w">>
      [] tok = "'é'" -> <<"é">>
      [] OTHER -> <<>>

\* char::len_utf8 of a piece: the bytes of its UTF-8 encoding.
len_utf8(piece) == IF piece = "é" THEN 2 ELSE Len(piece)

RECURSIVE len(_)
\* str::len: the length of a string in bytes.
len(value) == IF value = <<>> THEN 0 ELSE len_utf8(Head(value)) + len(Tail(value))

\* str::to_uppercase and str::to_ascii_lowercase on the words of the texts.
to_uppercase(word) ==
    CASE word = "csv" -> "CSV"
      [] word = "parqueT" -> "PARQUET"
      [] word = "with" -> "WITH"
      [] word = "header" -> "HEADER"
      [] word \in {"row", "Row"} -> "ROW"
      [] word = "int" -> "INT"
      [] word = "c" -> "C"
      [] word = "d" -> "D"
      [] word = "s" -> "S"
      [] word = "t" -> "T"
      [] word = "p" -> "P"
      [] word = "q" -> "Q"
      [] word = "k" -> "K"
      [] word = "v" -> "V"
      [] word = "x" -> "X"
      [] OTHER -> word
to_ascii_lowercase(word) ==
    CASE word = "CSV" -> "csv"
      [] word = "GZIP" -> "gzip"
      [] word = "PARQUET" -> "parquet"
      [] word = "X" -> "x"
      [] OTHER -> word

\* Word::keyword: the keyword a word is, in whatever letter case it is
\* written, and NoKeyword for the words that are none.
NoKeyword == "NoKeyword"
\* The keywords of the generic grammar among the words of the texts.
ALL_KEYWORDS == Keywords \cup {"CSV", "INT"}
keyword(word) ==
    IF to_uppercase(word) \in ALL_KEYWORDS THEN to_uppercase(word) ELSE NoKeyword

DEFAULT_CATALOG == "sdf"
DEFAULT_SCHEMA == "public"

\* The statements texts are built from.
UseCST == <<"USE", "c", ".", "s", ".", "t">>
UseCS == <<"USE", "c", ".", "s">>
UseDST == <<"USE", "d", ".", "s", ".", "t">>
UseNothing == <<"USE">>
Select == <<"SELECT", "1">>
BadSelect == <<"SELECT">>
BadLiteral == <<"SELECT", "'">>
StmtMenu == {UseCST, UseCS, UseDST, UseNothing, Select, BadSelect, BadLiteral}

RECURSIVE TextsOf(_)
\* The texts of exactly n statements, separated by statement delimiters.
TextsOf(n) ==
    IF n = 0 THEN {<<>>}
    ELSE IF n = 1 THEN StmtMenu
    ELSE {t \o <<SemiColon>> \o s : t \in TextsOf(n - 1), s \in StmtMenu}

\* The texts the callers hand to the parser.
Texts == UNION {TextsOf(n) : n \in 0..MaxStmts}
\* The texts the callers hand to the parser when their threads run in
\* parallel: one statement.
ShortTexts == TextsOf(1)

\* The texts a file on the disk may hold: statements only; a USE of the table
\* file between two statements; a USE of the other catalog before a USE of the
\* schema file; a statement the grammar refuses after one it takes; a literal
\* the tokenizer refuses.
FileTexts ==
    {Select,
     Select \o <<SemiColon>> \o UseCST \o <<SemiColon>> \o Select,
     UseDST \o <<SemiColon>> \o UseCS,
     Select \o <<SemiColon>> \o BadSelect,
     BadLiteral}
\* The texts a file may hold when the callers' threads run in parallel.
ShortFileTexts == {Select, BadSelect, UseCS \o <<SemiColon>> \o Select}

\* ---- the texts that exercise the statement grammar

RECURSIVE Dotted(_)
\* An object name as its tokens: the parts with periods between them.
Dotted(parts) ==
    IF Len(parts) <= 1 THEN parts
    ELSE <<parts[1], Period>> \o Dotted(Tail(parts))

\* Object names of one to four parts.
Names == {<<"t">>, <<"s", "t">>, <<"c", "s", "t">>, <<"c", "d", "s", "t">>}

Describe(parts) == <<"DESCRIBE">> \o Dotted(parts)
CreateTable(parts) == <<"CREATE", "TABLE">> \o Dotted(parts)
CreateSchema(parts) == <<"CREATE", "SCHEMA">> \o Dotted(parts)
Paren == <<LParen, "SELECT", Number, RParen>>

\* The optional clauses of CREATE EXTERNAL TABLE, in the order of the grammar.
ClauseMenu ==
    <<<<"WITH", "HEADER", "ROW">>,
      <<"DELIMITER", "'|'">>,
      <<"COMPRESSION", "TYPE", "GZIP">>,
      <<"PARTITIONED", "BY", LParen, "p", RParen>>,
      <<"OPTIONS", LParen, "'k'", "'v'", RParen>>>>
ClauseCount == Len(ClauseMenu)

RECURSIVE Flatten(_)
Flatten(seqs) == IF seqs = <<>> THEN <<>> ELSE Head(seqs) \o Flatten(Tail(seqs))

\* The clause choices: every sequence of up to MaxClauses clauses, in any
\* order and with repetitions, and all the clauses in the grammar's order.
ClauseChoices ==
    UNION {[1..n -> 1..ClauseCount] : n \in 0..MaxClauses}
        \cup {[i \in 1..ClauseCount |-> i]}
ClausesOf(choice) == Flatten([i \in 1..Len(choice) |-> ClauseMenu[choice[i]]])

ColumnsMenu == {<<>>, <<LParen, RParen>>, <<LParen, "c", "int", RParen>>,
                <<LParen, "c", "int", Comma, "d", "int", Comma, RParen>>}
LocationMenu == {"'foo.csv'", "'s3://foo'"}

\* CREATE EXTERNAL TABLE [IF NOT EXISTS] name [columns] STORED AS format
\* clauses LOCATION location
CreateExternal(if_not_exists, parts, columns, format, clauses, location) ==
    <<"CREATE", "EXTERNAL", "TABLE">>
        \o (IF if_not_exists THEN <<"IF", "NOT", "EXISTS">> ELSE <<>>)
        \o Dotted(parts) \o columns \o <<"STORED", "AS", format>> \o clauses
        \o <<"LOCATION", location>>

\* The texts of one CREATE EXTERNAL TABLE: the plain ones, with and without
\* IF NOT EXISTS and columns, of a short and of a four-part name, at both
\* locations; the ones with optional clauses; and malformed ones.
ExternalTexts ==
    {CreateExternal(i, n, c, "csv", <<>>, l) :
        i \in BOOLEAN, n \in {<<"t">>, <<"c", "d", "s", "t">>}, c \in ColumnsMenu,
        l \in LocationMenu}
    \cup {CreateExternal(FALSE, <<"t">>, <<>>, "csv", ClausesOf(ch), "'s3://foo'") :
              ch \in ClauseChoices}
    \cup {CreateExternal(FALSE, <<"t">>, <<>>, "csv", <<"DELIMITER", "'ab'">>, "'s3://foo'"),
          CreateExternal(FALSE, <<"t">>, <<>>, "csv", <<"COMPRESSION", "TYPE", "p">>,
                         "'s3://foo'"),
          <<"CREATE", "EXTERNAL", "TABLE", "t", "WITH", "HEADER", "ROW", "STORED", "AS", "csv",
            "LOCATION", "'s3://foo'">>,
          <<"CREATE", "EXTERNAL", "TABLE", "t", "STORED", "AS", "csv", "LOCATION", "'s3://foo'",
            "WITH", "HEADER", "ROW">>,
          <<"CREATE", "EXTERNAL", "TABLE", "t", "STORED", "AS", "csv">>,
          <<"CREATE", "EXTERNAL", "t">>}

\* CREATE EXTERNAL TABLE t STORED AS <format> <clauses> LOCATION 's3://foo'
Stored(format, clauses) ==
    CreateExternal(FALSE, <<"t">>, <<>>, format, clauses, "'s3://foo'")

\* What may stand after STORED AS: words in several letter cases, and tokens
\* that are no words.
FormatMenu == {"csv", "parqueT", "x", "XZ", "'k'", Number, LParen}
\* What may stand after DELIMITER: literals of no, one and two characters, of
\* one character of two bytes, a word, and a token that is no literal.
DelimiterMenu == {"'|'", "'ab'", "''", "'é'", "x", Number}
\* WITH HEADER ROW in several letter cases.
HeaderMenu == {<<"WITH", "HEADER", "ROW">>, <<"with", "header", "row">>,
               <<"WITH", "header", "Row">>}
\* The openers of the clauses of more than one keyword, in part.
PartialMenu == {<<"WITH", "HEADER">>, <<"with", "header">>, <<"WITH">>, <<"PARTITIONED">>,
                <<"COMPRESSION">>}
\* What may stand after COMPRESSION TYPE.
CompressionMenu == {"GZIP", "BZIP2", "XZ", "UNCOMPRESSED", "ZZZ", "x", "'k'"}
\* What may stand after PARTITIONED BY.
PartitionMenu ==
    {<<LParen, "p", RParen>>, <<LParen, "p", Comma, "q", RParen>>,
     <<LParen, "q", Comma, "p", Comma, RParen>>, <<LParen, RParen>>,
     <<LParen, "p", "int", RParen>>, <<LParen, "p", "q", RParen>>,
     <<LParen, "p", Comma, "q", "'k'", RParen>>,
     <<LParen, "'k'", RParen>>, <<LParen, "p", Comma, Number, RParen>>,
     <<LParen, "p", Comma, Comma, "q", RParen>>}
\* What may stand after OPTIONS.
OptionMenu ==
    {<<LParen, "'k'", "'v'", RParen>>, <<LParen, "'k'", "'v'", Comma, "x", "'w'", RParen>>,
     <<LParen, "k", "v", Comma, RParen>>,
     <<LParen, "'k'", "'v'", Comma, "k", "'w'", RParen>>,
     <<LParen, "'k'", "'v'", Comma, "x", RParen>>, <<LParen, "k", RParen>>,
     <<LParen, "'k'", "'v'", "x", "'w'", RParen>>}

\* The texts of one CREATE EXTERNAL TABLE with one clause of these.
ClauseTexts ==
    {Stored(f, <<>>) : f \in FormatMenu}
        \cup {Stored("csv", <<"DELIMITER", d>>) : d \in DelimiterMenu}
        \cup {Stored("csv", h) : h \in HeaderMenu \cup PartialMenu}
        \cup {Stored("csv", <<"COMPRESSION", "TYPE", c>>) : c \in CompressionMenu}
        \cup {Stored("csv", <<"PARTITIONED", "BY">> \o p) : p \in PartitionMenu}
        \cup {Stored("x", <<"OPTIONS">> \o o) : o \in OptionMenu}

\* CREATE EXTERNAL TABLE <name> STORED AS <format> LOCATION <location>
Located(parts, format, location) == CreateExternal(FALSE, parts, <<>>, format, <<>>, location)

\* The texts of two CREATE EXTERNAL TABLE: of one table at two locations, of
\* two tables at one location, of one table in two formats; and the same
\* statement twice.
TwoTables ==
    {Located(<<"t">>, "csv", "'s3://foo'") \o <<SemiColon>>
         \o Located(<<"t">>, "csv", "'foo.csv'"),
     Located(<<"t">>, "csv", "'foo.csv'") \o <<SemiColon>>
         \o Located(<<"t">>, "csv", "'s3://foo'"),
     Located(<<"t">>, "csv", "'s3://foo'") \o <<SemiColon>>
         \o Located(<<"s", "t">>, "csv", "'s3://foo'"),
     Located(<<"t">>, "csv", "'s3://foo'") \o <<SemiColon>>
         \o Located(<<"t">>, "x", "'s3://foo'"),
     Located(<<"t">>, "csv", "'s3://foo'") \o <<SemiColon>>
         \o Located(<<"t">>, "csv", "'s3://foo'")}

\* The texts the callers hand to the parser to exercise the grammar: one
\* statement each, and two with and without a delimiter between them.
GrammarTexts ==
    StmtMenu \cup ExternalTexts \cup ClauseTexts \cup TwoTables
        \cup {Describe(n) : n \in Names} \cup {CreateTable(n) : n \in Names}
        \cup {CreateSchema(n) : n \in Names}
        \cup {Paren, <<"DESCRIBE">>, <<"CREATE", "c">>,
              Describe(<<"t">>) \o <<SemiColon>> \o Select,
              Describe(<<"t">>) \o Select,
              Select \o <<SemiColon>> \o Describe(<<"c", "d", "s", "t">>),
              Select \o <<SemiColon>> \o Paren,
              UseCST \o Select}

\* A path, and an error message, is the sequence of the pieces format! joins.
\* format!("{}/{}.sql", catalog, schema)
SchemaFilename(catalog, schema) == <<catalog, "/", schema, ".sql">>
\* format!("{}/{}/{}.sql", catalog, schema, table)
TableFilename(catalog, schema, table) == <<catalog, "/", schema, "/", table, ".sql">>

\* The paths that may be files on the disk; every other path is none.
Files == {SchemaFilename("c", "s"), TableFilename("c", "s", "t"), SchemaFilename("d", "s")}

\* ------------------------------------------------------------- the cursor

\* Parser::peek_token at index pos (1-based): EOF past the end.
Peek(toks, pos) == IF pos <= Len(toks) THEN toks[pos] ELSE EOF

RECURSIVE SkipSemis(_, _)
\* while parser.consume_token(&Token::SemiColon) {}
SkipSemis(toks, pos) ==
    IF Peek(toks, pos) = SemiColon THEN SkipSemis(toks, pos + 1) ELSE pos

\* Parser::expect_token(&Token::Period) with its result dropped: the period
\* is consumed when it is there, nothing is consumed otherwise.
SkipPeriod(toks, pos) == IF Peek(toks, pos) = Period THEN pos + 1 ELSE pos

\* Parser::parse_identifier: takes the next token whatever it is, and fails
\* unless it is a word.
IdentValue(toks, pos) == IF IsWord(Peek(toks, pos)) THEN Peek(toks, pos) ELSE ""

\* Tokenizer::tokenize_with_location: fails on an unterminated literal.
TokenizeOk(text) == \A i \in 1..Len(text) : text[i] # Unterminated

\* ------------------------------------------------------------ the grammar

ParserError(msg) == [type |-> "ParserError", msg |-> msg]
TokenizerError(msg) == [type |-> "TokenizerError", msg |-> msg]
NoError == [type |-> "", msg |-> <<>>]

\* DFParser::expected: "Expected {expected}, found: {found}"
Expected(expected, found) == ParserError(<<"Expected ", expected, ", found: ", found>>)

StatementMeta(catalog, schema, table, filename) ==
    [catalog |-> catalog, schema |-> schema, table |-> table, filename |-> filename]

\* with_meta(""): "".split(".") is one empty part.
WithMetaEmpty(filename) == StatementMeta(DEFAULT_CATALOG, DEFAULT_SCHEMA, "", filename)
\* with_meta_for_object_name(ObjectName(vec![])): no part at all.
WithMetaNoName(filename) == StatementMeta(DEFAULT_CATALOG, DEFAULT_SCHEMA, "N.N", filename)

RECURSIVE LastSlash(_, _)
\* path.rfind('/'): the index of the last "/" piece at or before i, or 0.
LastSlash(path, i) ==
    IF i = 0 THEN 0 ELSE IF path[i] = "/" THEN i ELSE LastSlash(path, i - 1)

basename(path) == SubSeq(path, LastSlash(path, Len(path)) + 1, Len(path))

strip_extension(path, ext) ==
    IF Len(path) > 0 /\ path[Len(path)] = ext THEN SubSeq(path, 1, Len(path) - 1) ELSE path

\* What parsing one statement comes to: a statement with its meta and the
\* cursor after it, an error value, or a panic; with the key that
\* parse_create_external_table has put into LOCATIONS, if any, and whether
\* exists_full_path was asked, of which path.
ParseOk(stmt, meta, pos) ==
    [ok |-> TRUE, panic |-> FALSE, stmt |-> stmt, meta |-> meta, pos |-> pos, err |-> NoError,
     location |-> <<>>, asked |-> FALSE, path |-> <<>>]
ParseErr(err) ==
    [ok |-> FALSE, panic |-> FALSE, stmt |-> [kind |-> "", name |-> <<>>],
     meta |-> StatementMeta("", "", "", <<>>), pos |-> 0, err |-> err,
     location |-> <<>>, asked |-> FALSE, path |-> <<>>]
\* todo!("with object {:?}", name)
ParsePanic == [ParseErr(NoError) EXCEPT !.panic = TRUE]

\* The StatementMeta of a name of one, two or three parts; none for a longer
\* one (the match arm that panics).
MetaOfParts(parts, filename) ==
    CASE Len(parts) = 1 -> StatementMeta(DEFAULT_CATALOG, DEFAULT_SCHEMA, parts[1], filename)
      [] Len(parts) = 2 -> StatementMeta(DEFAULT_CATALOG, parts[1], parts[2], filename)
      [] Len(parts) = 3 -> StatementMeta(parts[1], parts[2], parts[3], filename)

\* with_meta that makes the meta of the last three parts of a longer name.
with_meta_of_any(stmt, parts, filename, pos) ==
    IF Len(parts) \in 1..3 THEN ParseOk(stmt, MetaOfParts(parts, filename), pos)
    ELSE ParseOk(stmt, MetaOfParts(SubSeq(parts, Len(parts) - 2, Len(parts)), filename), pos)

\* DFParser::with_meta(table) for a table name given by its dot-separated
\* parts: table.split(".") has one part at least.
with_meta(stmt, parts, filename, pos) ==
    IF Len(parts) \in 1..3 THEN ParseOk(stmt, MetaOfParts(parts, filename), pos)
    ELSE ParsePanic

\* DFParser::with_meta_for_object_name(name)
with_meta_for_object_name(stmt, parts, filename, pos) ==
    IF parts = <<>> THEN ParseOk(stmt, WithMetaNoName(filename), pos)
    ELSE IF Len(parts) <= 3 THEN ParseOk(stmt, MetaOfParts(parts, filename), pos)
    ELSE ParsePanic

RECURSIVE ObjectNameEnd(_, _)
\* Parser::parse_object_name from pos: the index after the name, or 0 when a
\* part is not an identifier.
ObjectNameEnd(toks, pos) ==
    IF ~IsWord(Peek(toks, pos)) THEN 0
    ELSE IF Peek(toks, pos + 1) = Period THEN ObjectNameEnd(toks, pos + 2)
    ELSE pos + 1

\* The identifiers of the object name in toks[from .. to - 1].
ObjectNameParts(toks, from, to) ==
    LET idx == {i \in from..(to - 1) : toks[i] # Period}
        ord == CHOOSE f \in [1..Cardinality(idx) -> idx] :
                   \A i, j \in 1..Cardinality(idx) : i < j => f[i] < f[j]
    IN [i \in 1..Cardinality(idx) |-> toks[ord[i]]]

\* Parser::parse_create of the generic grammar, with the cursor after CREATE:
\* CREATE TABLE, CREATE DATABASE or CREATE SCHEMA and an object name.
GenericCreate(toks, pos) ==
    LET what == Peek(toks, pos)
        end == ObjectNameEnd(toks, pos + 1)
    IN IF what \notin {"TABLE", "DATABASE", "SCHEMA"}
       THEN ParseErr(Expected("an object type after CREATE", what))
       ELSE IF end = 0
       THEN ParseErr(Expected("identifier", "a token"))
       ELSE ParseOk([kind |-> CASE what = "TABLE" -> "CreateTable"
                                [] what = "DATABASE" -> "CreateDatabase"
                                [] what = "SCHEMA" -> "CreateSchema",
                     name |-> ObjectNameParts(toks, pos + 1, end)],
                    StatementMeta("", "", "", <<>>), end)

\* DFParser::parse_create when EXTERNAL does not follow: the generic grammar's
\* CREATE; the meta is made of the name of a table (or view), and of the empty
\* name for any other statement.
ParseCreate(toks, pos, filename) ==
    LET stm == GenericCreate(toks, pos)
    IN IF ~stm.ok THEN stm
       ELSE with_meta_for_object_name(
                stm.stmt, IF stm.stmt.kind = "CreateTable" THEN stm.stmt.name ELSE <<>>,
                filename, stm.pos)

\* DFParser::parse_describe, with the cursor after DESCRIBE.
parse_describe(toks, pos, filename) ==
    LET end == ObjectNameEnd(toks, pos)
    IN IF end = 0 THEN ParseErr(Expected("identifier", Peek(toks, pos)))
       ELSE with_meta([kind |-> "DescribeTable", name |-> ObjectNameParts(toks, pos, end)],
                      ObjectNameParts(toks, pos, end), filename, end)

\* ------------------------------------------- the external-table clause parser

\* What parsing a part of a statement comes to: a value and the cursor after
\* it, or an error.
PartOk(val, pos) == [ok |-> TRUE, val |-> val, pos |-> pos, err |-> NoError]
PartErr(err) == [ok |-> FALSE, val |-> <<>>, pos |-> 0, err |-> err]

\* Parser::parse_keywords: whether the words stand at pos, all of them.
KeywordsAt(toks, pos, words) ==
    \A i \in 1..Len(words) :
        IsWord(Peek(toks, pos + i - 1)) /\ keyword(Peek(toks, pos + i - 1)) = words[i]
\* AfterKeywords that leaves the cursor after the first word when only a part
\* of the words is there.
AfterKeywordsInPart(toks, pos, words) ==
    IF KeywordsAt(toks, pos, words) THEN pos + Len(words)
    ELSE IF KeywordsAt(toks, pos, <<words[1]>>) THEN pos + 1
    ELSE pos

\* The cursor after parse_keywords: past the words if they are all there, and
\* where it was if not.
AfterKeywords(toks, pos, words) ==
    IF KeywordsAt(toks, pos, words) THEN pos + Len(words) ELSE pos

\* Parser::parse_literal_string: the value of a quoted string, or a word that
\* is no keyword as it is written.
parse_literal_string(toks, pos) ==
    IF IsString(Peek(toks, pos)) THEN PartOk(StringValue(Peek(toks, pos)), pos + 1)
    ELSE IF IsWord(Peek(toks, pos)) /\ keyword(Peek(toks, pos)) = NoKeyword
    THEN PartOk(<<Peek(toks, pos)>>, pos + 1)
    ELSE PartErr(Expected("literal string", Peek(toks, pos)))

RECURSIVE ColumnList(_, _, _)
\* The loop of DFParser::parse_columns: a column is a name and a data type.
\* The next round starts from the cursor and the columns of this one.
ColumnList(toks, pos, columns) ==
    IF ~IsWord(Peek(toks, pos))
    THEN PartErr(Expected("column name or constraint definition", Peek(toks, pos)))
    ELSE IF Peek(toks, pos + 1) # "int"
    THEN PartErr(Expected("a data type name", Peek(toks, pos + 1)))
    ELSE LET column == [name |-> Peek(toks, pos), data_type |-> Peek(toks, pos + 1)]
             comma == Peek(toks, pos + 2) = Comma
             next == IF comma THEN pos + 3 ELSE pos + 2
         IN IF Peek(toks, next) = RParen THEN PartOk(Append(columns, column), next + 1)
            ELSE IF ~comma
            THEN PartErr(Expected("',' or ')' after column definition", Peek(toks, next)))
            ELSE CHOOSE r \in {ColumnList(toks, n, cs) :
                                 n \in {next}, cs \in {Append(columns, column)}} : TRUE

\* DFParser::parse_columns
parse_columns(toks, pos) ==
    IF Peek(toks, pos) # LParen THEN PartOk(<<>>, pos)
    ELSE IF Peek(toks, pos + 1) = RParen THEN PartOk(<<>>, pos + 2)
    ELSE ColumnList(toks, pos + 1, <<>>)

RECURSIVE PartitionList(_, _, _)
\* The loop of DFParser::parse_partitions
PartitionList(toks, pos, partitions) ==
    IF ~IsWord(Peek(toks, pos)) THEN PartErr(Expected("partition name", Peek(toks, pos)))
    ELSE LET comma == Peek(toks, pos + 1) = Comma
             next == IF comma THEN pos + 2 ELSE pos + 1
         IN IF Peek(toks, next) = RParen
            THEN PartOk(Append(partitions, Peek(toks, pos)), next + 1)
            ELSE IF ~comma
            THEN PartErr(Expected("',' or ')' after partition definition", Peek(toks, next)))
            ELSE CHOOSE r \in {PartitionList(toks, n, ps) :
                                 n \in {next}, ps \in {Append(partitions, Peek(toks, pos))}} : TRUE

\* parse_partitions that reads the list as parse_columns reads its list, a
\* name and a type each.
parse_partitions_as_columns(toks, pos) ==
    LET columns == parse_columns(toks, pos)
    IN IF ~columns.ok THEN columns
       ELSE PartOk([i \in 1..Len(columns.val) |-> columns.val[i].name], columns.pos)

\* DFParser::parse_partitions
parse_partitions(toks, pos) ==
    IF Peek(toks, pos) # LParen THEN PartOk(<<>>, pos)
    ELSE IF Peek(toks, pos + 1) = RParen THEN PartOk(<<>>, pos + 2)
    ELSE PartitionList(toks, pos + 1, <<>>)

RECURSIVE OptionListKeepingFirst(_, _, _)
\* OptionList that keeps the first value of a key that is given again.
OptionListKeepingFirst(toks, pos, options) ==
    LET key == parse_literal_string(toks, pos)
        value == parse_literal_string(toks, pos + 1)
        inserted_ == IF \E o \in options : o[1] = key.val THEN options
                     ELSE options \cup {<<key.val, value.val>>}
        comma == Peek(toks, pos + 2) = Comma
        next == IF comma THEN pos + 3 ELSE pos + 2
    IN IF ~key.ok THEN key
       ELSE IF ~value.ok THEN value
       ELSE IF Peek(toks, next) = RParen THEN PartOk(inserted_, next + 1)
       ELSE IF ~comma
       THEN PartErr(Expected("',' or ')' after option definition", Peek(toks, next)))
       ELSE CHOOSE r \in {OptionListKeepingFirst(toks, n, os) :
                            n \in {next}, os \in {inserted_}} : TRUE

RECURSIVE OptionList(_, _, _)
\* The loop of DFParser::parse_options: options.insert(key, value) keeps the
\* last value of a key.  The options are the set of their (key, value) pairs.
OptionList(toks, pos, options) ==
    LET key == parse_literal_string(toks, pos)
        value == parse_literal_string(toks, pos + 1)
        inserted_ == {o \in options : o[1] # key.val} \cup {<<key.val, value.val>>}
        comma == Peek(toks, pos + 2) = Comma
        next == IF comma THEN pos + 3 ELSE pos + 2
    IN IF ~key.ok THEN key
       ELSE IF ~value.ok THEN value
       ELSE IF Peek(toks, next) = RParen THEN PartOk(inserted_, next + 1)
       ELSE IF ~comma
       THEN PartErr(Expected("',' or ')' after option definition", Peek(toks, next)))
       ELSE CHOOSE r \in {OptionList(toks, n, os) : n \in {next}, os \in {inserted_}} : TRUE

\* DFParser::parse_options
parse_options(toks, pos) ==
    IF Peek(toks, pos) # LParen THEN PartErr(Expected(LParen, Peek(toks, pos)))
    ELSE OptionList(toks, pos + 1, {})

\* DFParser::parse_delimiter
parse_delimiter(toks, pos) ==
    LET token == parse_literal_string(toks, pos)
    IN IF ~token.ok THEN token
       ELSE IF len(token.val) = 1 THEN PartOk(token.val[1], token.pos)
       ELSE PartErr(TokenizerError(<<"Delimiter must be a single char">>))

\* CompressionTypeVariant: the tags of the enumeration.
CompressionTypes == {"UNCOMPRESSED", "GZIP", "BZIP2", "XZ"}
\* CompressionTypeVariant::from_str: the value of the enumeration a tag names.
from_str(tag, pos) ==
    IF tag \in CompressionTypes THEN PartOk(tag, pos)
    ELSE PartErr(ParserError(<<"Unsupported file compression type ", tag>>))

\* parse_file_compression_type that takes every word for a tag.
parse_file_compression_type_of_any(toks, pos) ==
    LET token == Peek(toks, pos)
    IN IF ~IsWord(token) THEN PartErr(Expected("one of GZIP, BZIP2, XZ", token))
       ELSE PartOk(token, pos + 1)

\* DFParser::parse_file_compression_type
parse_file_compression_type(toks, pos) ==
    LET token == Peek(toks, pos)
    IN IF ~IsWord(token) THEN PartErr(Expected("one of GZIP, BZIP2, XZ", token))
       ELSE from_str(token, pos + 1)

\* parse_file_format that takes the word as it is written.
parse_file_format_as_written(toks, pos) ==
    IF IsWord(Peek(toks, pos)) THEN PartOk(Peek(toks, pos), pos + 1)
    ELSE PartErr(Expected("one of PARQUET, NDJSON, or CSV", Peek(toks, pos)))

\* DFParser::parse_file_format, with parse_file_type
parse_file_format(toks, pos) ==
    IF IsWord(Peek(toks, pos)) THEN PartOk(to_uppercase(Peek(toks, pos)), pos + 1)
    ELSE PartErr(Expected("one of PARQUET, NDJSON, or CSV", Peek(toks, pos)))

\* The key parse_create_external_table puts into LOCATIONS:
\* "{location.to_ascii_lowercase()}::{file_type.to_ascii_lowercase()}"
LocationKey(location, file_type) ==
    [i \in 1..Len(location) |-> to_ascii_lowercase(location[i])]
        \o <<"::", to_ascii_lowercase(file_type)>>

\* location.starts_with("s3://")
IsS3(location) == Len(location) > 0 /\ location[1] = "s3://"

UNCOMPRESSED == "UNCOMPRESSED"

\* CreateExternalTable with the semicolon for the delimiter of a statement
\* that names none.
CreateExternalTableSemicolon(pos) ==
    [ok |-> TRUE, err |-> NoError, pos |-> pos,
     create |-> [kind |-> "CreateExternalTable", name |-> <<>>, columns |-> <<>>,
                 file_type |-> "", has_header |-> FALSE, delimiter |-> ";",
                 location |-> <<>>, table_partition_cols |-> <<>>, if_not_exists |-> FALSE,
                 file_compression_type |-> UNCOMPRESSED, options |-> {}]]

\* The CreateExternalTable under construction: the cursor, the fields parsed
\* so far (the others at their defaults), and the error of the step that
\* failed, after which no step does anything (the ? of each step).
CreateExternalTable(pos) ==
    [ok |-> TRUE, err |-> NoError, pos |-> pos,
     create |-> [kind |-> "CreateExternalTable", name |-> <<>>, columns |-> <<>>,
                 file_type |-> "", has_header |-> FALSE, delimiter |-> ",",
                 location |-> <<>>, table_partition_cols |-> <<>>, if_not_exists |-> FALSE,
                 file_compression_type |-> UNCOMPRESSED, options |-> {}]]
Failed(c, err) == [c EXCEPT !.ok = FALSE, !.err = err]

\* One step that parses a part: the part's error, or the construction with
\* the cursor after the part.
After(c, part, create) ==
    IF ~part.ok THEN Failed(c, part.err) ELSE [c EXCEPT !.pos = part.pos, !.create = create]

\* expect_keyword(word)?
ExpectKeyword(toks, c, word) ==
    IF ~c.ok THEN c
    ELSE IF KeywordsAt(toks, c.pos, <<word>>) THEN [c EXCEPT !.pos = @ + 1]
    ELSE Failed(c, Expected(word, Peek(toks, c.pos)))

\* parse_keywords(&[IF, NOT, EXISTS])
IfNotExists(toks, c) ==
    IF ~c.ok THEN c
    ELSE [c EXCEPT !.pos = AfterKeywords(toks, @, <<"IF", "NOT", "EXISTS">>),
                   !.create.if_not_exists = KeywordsAt(toks, c.pos, <<"IF", "NOT", "EXISTS">>)]

\* parse_object_name()?
TableName(toks, c) ==
    IF ~c.ok THEN c
    ELSE IF ObjectNameEnd(toks, c.pos) = 0 THEN Failed(c, Expected("identifier", "a token"))
    ELSE [c EXCEPT !.pos = ObjectNameEnd(toks, @),
                   !.create.name = ObjectNameParts(toks, c.pos, ObjectNameEnd(toks, c.pos))]

\* self.parse_columns()?
Columns(toks, c) ==
    IF ~c.ok THEN c
    ELSE LET part == parse_columns(toks, c.pos)
         IN After(c, part, [c.create EXCEPT !.columns = part.val])

\* self.parse_file_format()?
FileFormat(toks, c) ==
    IF ~c.ok THEN c
    ELSE LET part == parse_file_format(toks, c.pos)
         IN After(c, part, [c.create EXCEPT !.file_type = part.val])

\* parse_csv_has_header()
HasHeader(toks, c) ==
    IF ~c.ok THEN c
    ELSE [c EXCEPT !.pos = AfterKeywords(toks, @, <<"WITH", "HEADER", "ROW">>),
                   !.create.has_header = KeywordsAt(toks, c.pos, <<"WITH", "HEADER", "ROW">>)]

\* match has_delimiter { true => self.parse_delimiter()?, false => ',' }
Delimiter(toks, c) ==
    IF ~c.ok \/ ~KeywordsAt(toks, c.pos, <<"DELIMITER">>) THEN c
    ELSE LET part == parse_delimiter(toks, c.pos + 1)
         IN After(c, part, [c.create EXCEPT !.delimiter = part.val])

\* if self.parse_has_file_compression_type() { self.parse_file_compression_type()? }
Compression(toks, c) ==
    IF ~c.ok \/ ~KeywordsAt(toks, c.pos, <<"COMPRESSION", "TYPE">>) THEN c
    ELSE LET part == parse_file_compression_type(toks, c.pos + 2)
         IN After(c, part, [c.create EXCEPT !.file_compression_type = part.val])

\* if self.parse_has_partition() { self.parse_partitions()? }
Partitions(toks, c) ==
    IF ~c.ok \/ ~KeywordsAt(toks, c.pos, <<"PARTITIONED", "BY">>) THEN c
    ELSE LET part == parse_partitions(toks, c.pos + 2)
         IN After(c, part, [c.create EXCEPT !.table_partition_cols = part.val])

\* if self.parse_has_options() { self.parse_options()? }
Options(toks, c) ==
    IF ~c.ok \/ ~KeywordsAt(toks, c.pos, <<"OPTIONS">>) THEN c
    ELSE LET part == parse_options(toks, c.pos + 1)
         IN After(c, part, [c.create EXCEPT !.options = part.val])

\* self.parser.parse_literal_string()? after LOCATION
Location(toks, c) ==
    IF ~c.ok THEN c
    ELSE LET part == parse_literal_string(toks, c.pos)
         IN After(c, part, [c.create EXCEPT !.location = part.val])

\* ExternalTableClauses with the delimiter looked for before the header.
ExternalTableClausesReordered(toks, pos) ==
    CHOOSE c \in
    {Location(toks, c14) : c14 \in
      {ExpectKeyword(toks, c13, "LOCATION") : c13 \in
        {Options(toks, c12) : c12 \in
          {Partitions(toks, c11) : c11 \in
            {Compression(toks, c10) : c10 \in
              {HasHeader(toks, c9) : c9 \in
                {Delimiter(toks, c8) : c8 \in
                  {FileFormat(toks, c7) : c7 \in
                    {ExpectKeyword(toks, c6, "AS") : c6 \in
                      {ExpectKeyword(toks, c5, "STORED") : c5 \in
                        {Columns(toks, c4) : c4 \in
                          {TableName(toks, c3) : c3 \in
                            {IfNotExists(toks, c2) : c2 \in
                              {ExpectKeyword(toks, c1, "TABLE") : c1 \in
                                {CreateExternalTable(pos)}}}}}}}}}}}}}}} : TRUE

\* parse_create_external_table up to the location, with the cursor after
\* EXTERNAL: the steps in the order of the code, each working on the outcome
\* of the one before it.
ExternalTableClauses(toks, pos) ==
    CHOOSE c \in
    {Location(toks, c14) : c14 \in
      {ExpectKeyword(toks, c13, "LOCATION") : c13 \in
        {Options(toks, c12) : c12 \in
          {Partitions(toks, c11) : c11 \in
            {Compression(toks, c10) : c10 \in
              {Delimiter(toks, c9) : c9 \in
                {HasHeader(toks, c8) : c8 \in
                  {FileFormat(toks, c7) : c7 \in
                    {ExpectKeyword(toks, c6, "AS") : c6 \in
                      {ExpectKeyword(toks, c5, "STORED") : c5 \in
                        {Columns(toks, c4) : c4 \in
                          {TableName(toks, c3) : c3 \in
                            {IfNotExists(toks, c2) : c2 \in
                              {ExpectKeyword(toks, c1, "TABLE") : c1 \in
                                {CreateExternalTable(pos)}}}}}}}}}}}}}}} : TRUE

\* fmt that leaves IF NOT EXISTS out.
fmt_without_if_not_exists(create) ==
    <<"CREATE EXTERNAL TABLE ">> \o Dotted(create.name) \o <<" ">>
        \o <<"STORED AS ", create.file_type, " ">>
        \o <<"LOCATION ">> \o create.location \o <<" ">>

\* impl fmt::Display for CreateExternalTable: the pieces that fmt writes, one
\* write! after the other; the name is the object name as a string, its
\* parts with periods between them.
fmt(create) ==
    <<"CREATE EXTERNAL TABLE ">>
        \o (IF create.if_not_exists THEN <<"IF NOT EXISTS ">> ELSE <<>>)
        \o Dotted(create.name) \o <<" ">>
        \o <<"STORED AS ", create.file_type, " ">>
        \o <<"LOCATION ">> \o create.location \o <<" ">>

\* ExternalTable that puts the key into LOCATIONS before it looks for the
\* location.
ExternalTableInsertingFirst(c, filename, exists_) ==
    IF ~c.ok THEN ParseErr(c.err)
    ELSE IF ~IsS3(c.create.location) /\ ~exists_
    THEN [ParseErr(ParserError(<<"Missing external file '">> \o c.create.location
                                  \o <<"'">>))
             EXCEPT !.location = LocationKey(c.create.location, c.create.file_type),
                    !.asked = TRUE, !.path = c.create.location]
    ELSE [with_meta(c.create, c.create.name, filename, c.pos)
             EXCEPT !.location = LocationKey(c.create.location, c.create.file_type),
                    !.asked = ~IsS3(c.create.location), !.path = c.create.location]

\* DFParser::parse_create_external_table after its clauses, with the answer
\* exists_full_path gives for the location, if it is asked.  The key goes into
\* LOCATIONS before with_meta makes the meta of the name, and so also when
\* with_meta panics.
ExternalTable(c, filename, exists_) ==
    IF ~c.ok THEN ParseErr(c.err)
    ELSE IF ~IsS3(c.create.location) /\ ~exists_
    THEN [ParseErr(ParserError(<<"Missing external file '">> \o c.create.location
                                  \o <<"'">>))
             EXCEPT !.asked = TRUE, !.path = c.create.location]
    ELSE [with_meta(c.create, c.create.name, filename, c.pos)
             EXCEPT !.location = LocationKey(c.create.location, c.create.file_type),
                    !.asked = ~IsS3(c.create.location), !.path = c.create.location]

\* DFParser::parse_create_external_table: the clauses, then the location.
parse_create_external_table(toks, pos, filename, exists_) ==
    CHOOSE r \in {ExternalTable(c, filename, exists_) : c \in {ExternalTableClauses(toks, pos)}} :
        TRUE

\* ParseQuery that wraps the query whether the scope has a filename or not.
ParseQueryWrapped(toks, pos, catalog, schema, filename) ==
    IF Peek(toks, pos + 1) # Number
    THEN ParseErr(Expected("an expression:", Peek(toks, pos + 1)))
    ELSE ParseOk([kind |-> "CreateTable",
                  name |-> <<catalog, schema>> \o strip_extension(basename(filename), ".sql")],
                 WithMetaEmpty(filename), pos + 2)

\* ParseQuery that names the table by the scope's filename with its
\* directories.
ParseQueryNamedByPath(toks, pos, catalog, schema, filename) ==
    IF Peek(toks, pos + 1) # Number
    THEN ParseErr(Expected("an expression:", Peek(toks, pos + 1)))
    ELSE IF filename # <<>>
    THEN ParseOk([kind |-> "CreateTable",
                  name |-> <<catalog, schema>> \o strip_extension(filename, ".sql")],
                 WithMetaEmpty(filename), pos + 2)
    ELSE ParseOk([kind |-> "Query", name |-> <<>>], WithMetaEmpty(filename), pos + 2)

\* The SELECT / WITH / VALUES branch of DFParser::parse_statement: a query,
\* wrapped into CREATE TABLE catalog.schema.<file stem> AS when the scope has a
\* filename.
ParseQuery(toks, pos, catalog, schema, filename) ==
    IF Peek(toks, pos + 1) # Number
    THEN ParseErr(Expected("an expression:", Peek(toks, pos + 1)))
    ELSE IF filename # <<>>
    THEN ParseOk([kind |-> "CreateTable",
                  name |-> <<catalog, schema>> \o strip_extension(basename(filename), ".sql")],
                 WithMetaEmpty(filename), pos + 2)
    ELSE ParseOk([kind |-> "Query", name |-> <<>>], WithMetaEmpty(filename), pos + 2)

\* DFParser::parse_statement with the cursor on the statement's first token.
\* The generic grammar's parse_statement, for the statements that reach it: a
\* parenthesized query is a query; no statement starts with another token.
GenericStatement(toks, pos, filename) ==
    IF Peek(toks, pos) = LParen /\ Peek(toks, pos + 1) = "SELECT"
       /\ Peek(toks, pos + 2) = Number /\ Peek(toks, pos + 3) = RParen
    THEN ParseOk([kind |-> "Query", name |-> <<>>], WithMetaEmpty(filename), pos + 4)
    ELSE ParseErr(Expected("an SQL statement", Peek(toks, pos)))

\* DFParser::parse_statement with the cursor on the statement's first token,
\* and with the answer of exists_full_path for the case that it is asked.
ParseStatement(toks, pos, catalog, schema, filename, exists_) ==
    LET first == Peek(toks, pos)
    IN IF first = "CREATE"
       THEN IF Peek(toks, pos + 1) = "EXTERNAL"
            THEN parse_create_external_table(toks, pos + 2, filename, exists_)
            ELSE ParseCreate(toks, pos + 1, filename)
       ELSE IF first = "DESCRIBE" THEN parse_describe(toks, pos + 1, filename)
       ELSE IF first = "SELECT" THEN ParseQuery(toks, pos, catalog, schema, filename)
       ELSE GenericStatement(toks, pos, filename)

\* ---------------------------------------------------- the catalog resolver

\* The identifier path of a USE, with the cursor at pos after the USE keyword
\* (parse_use, up to the scope check): the first token is taken; each period
\* is consumed only when it is there; each parse_identifier takes a token.
UsePath(toks, pos) ==
    LET p1 == SkipPeriod(toks, pos + 1)
        p2 == SkipPeriod(toks, p1 + 1)
    IN [ok |-> IsWord(Peek(toks, pos)),
        catalog |-> Peek(toks, pos),
        schema |-> IdentValue(toks, p1),
        table |-> IdentValue(toks, p2),
        pos |-> p2 + 1]

\* Resolve with the schema-scoped file tried first.
ResolveSchemaFirst(catalog, schema, table, table_is_file, schema_is_file) ==
    IF schema_is_file
    THEN [found |-> TRUE, is_table |-> FALSE, filename |-> SchemaFilename(catalog, schema)]
    ELSE IF table_is_file
    THEN [found |-> TRUE, is_table |-> TRUE, filename |-> TableFilename(catalog, schema, table)]
    ELSE [found |-> FALSE, is_table |-> FALSE, filename |-> <<>>]

\* Resolve that takes the schema-scoped file without looking for it.
ResolveUnchecked(catalog, schema, table, table_is_file, schema_is_file) ==
    IF table_is_file
    THEN [found |-> TRUE, is_table |-> TRUE, filename |-> TableFilename(catalog, schema, table)]
    ELSE [found |-> TRUE, is_table |-> FALSE, filename |-> SchemaFilename(catalog, schema)]

\* The file a USE resolves to, given what Path::is_file says of the two
\* candidates: the table-scoped file first, the schema-scoped file next.
Resolve(catalog, schema, table, table_is_file, schema_is_file) ==
    IF table_is_file
    THEN [found |-> TRUE, is_table |-> TRUE, filename |-> TableFilename(catalog, schema, table)]
    ELSE IF schema_is_file
    THEN [found |-> TRUE, is_table |-> FALSE, filename |-> SchemaFilename(catalog, schema)]
    ELSE [found |-> FALSE, is_table |-> FALSE, filename |-> <<>>]

\* "Missing schema file {} or table file {} "
MissingFile(schema_filename, table_filename) ==
    ParserError(<<"Missing schema file ">> \o schema_filename
                \o <<" or table file ">> \o table_filename \o <<" ">>)

\* format!("{}.{}", catalog, schema)
SchemaId(catalog, schema) == <<catalog, ".", schema>>

\* The tokens of format!("CREATE DATABASE {};\n", catalog)
CreateDatabaseText(catalog) == <<"CREATE", "DATABASE", catalog, SemiColon>>
\* The tokens of format!("CREATE SCHEMA {}.{};\n", catalog, schema)
CreateSchemaText(catalog, schema) == <<"CREATE", "SCHEMA", catalog, Period, schema, SemiColon>>

\* ------------------------------------------------------------------ state

Threads == 1..MaxSessions

VARIABLES
    VISITED_FILES,      \* the filenames USE has resolved (or visit() has marked)
    VISITED_CATALOGS,
    VISITED_SCHEMAS,    \* schema ids, catalog.schema
    LOCATIONS,
    is_file,            \* what Path::is_file has answered: "unknown", "yes", "no"
    contents,           \* what fs::read_to_string has found: {} before the first read
    exists,             \* what exists_full_path has answered, per scope file and location
    alive,              \* FALSE once exit(1) has run
    concurrent,         \* whether the callers run their parse calls in parallel
    grammar,            \* whether the callers' texts are the grammar's
    pc,                 \* where each session stands
    stack,              \* each session's parsers, the innermost last
    ret,                \* what parse_statements of the innermost parser returned
    result,             \* what the session's entry point returned
    inserted,           \* per filename: the VISITED_FILES.insert calls of USE
    resolved,           \* per filename: the USE statements resolved to it
    reads,              \* per filename: the reads of USE that found a text
    direct,             \* per filename: the reads of the callers' own parse_sql_file
    created,            \* per catalog / schema id: the preambles prepared
    calls,              \* the calls the callers have made
    call,               \* the scalar function call in hand: its name and arguments
    outcome             \* what the call has come to

registries == <<VISITED_FILES, VISITED_CATALOGS, VISITED_SCHEMAS, LOCATIONS>>
disk == <<is_file, contents, exists>>
mode == <<concurrent, grammar>>
evaluation == <<call, outcome>>
ghosts == <<inserted, resolved, reads, direct, created, calls>>
vars == <<registries, disk, alive, mode, evaluation, pc, stack, ret, result, ghosts>>

Unreadable == [readable |-> FALSE, text |-> <<>>]
FileData ==
    {Unreadable} \cup {[readable |-> TRUE, text |-> x] :
                           x \in IF concurrent THEN ShortFileTexts ELSE FileTexts}

NoUse ==
    [catalog |-> "", schema |-> "", table |-> "", filename |-> <<>>, is_table |-> FALSE,
     created_catalog |-> <<>>, created_schema |-> <<>>]

\* DFParser::new_with_dialect_and_scope over the tokens, of which the first
\* prelen are the preamble's.
NewParser(entry, toks, prelen, filename, catalog, schema, table) ==
    [entry |-> entry, toks |-> toks, pos |-> 1, prelen |-> prelen,
     catalog |-> catalog, schema |-> schema, table |-> table, filename |-> filename,
     stmts |-> <<>>, expecting |-> FALSE, use |-> NoUse]

NoRet == [ok |-> TRUE, stmts |-> <<>>, err |-> NoError]
Ok(stmts) == [kind |-> "ok", stmts |-> stmts, err |-> NoError]
Err(err) == [kind |-> "err", stmts |-> <<>>, err |-> err]
\* The read failure as an error value the caller could recover from.
PanicAsErr == [kind |-> "err", stmts |-> <<>>, err |-> ParserError(<<"Unable to read the file">>)]
Panic == [kind |-> "panic", stmts |-> <<>>, err |-> NoError]
None == [kind |-> "none", stmts |-> <<>>, err |-> NoError]

\* ------------------------------------------------------ scalar functions

\* A string is the sequence of its characters; the UTF-8 byte of each
\* character of the inputs and the decimal digits of a byte (u8::to_string).
Chars(word) ==
    CASE word = "hello" -> <<"h", "e", "l", "l", "o">>
      [] word = "hell" -> <<"h", "e", "l", "l">>
      [] word = "bc" -> <<"b", "c">>
      [] word = "aaabc" -> <<"a", "a", "a", "b", "c">>
      [] word = "a" -> <<"a">>
      [] word = "rust" -> <<"r", "u", "s", "t">>
      [] word = "ABc" -> <<"A", "B", "c">>
      [] word = "QWE" -> <<"Q", "W", "E">>
      [] word = "" -> <<>>
Byte(ch) ==
    CASE ch = "a" -> 97 [] ch = "b" -> 98 [] ch = "c" -> 99 [] ch = "e" -> 101
      [] ch = "h" -> 104 [] ch = "l" -> 108 [] ch = "o" -> 111 [] ch = "r" -> 114
      [] ch = "s" -> 115 [] ch = "t" -> 116 [] ch = "u" -> 117
      [] ch = "A" -> 65 [] ch = "B" -> 66 [] ch = "E" -> 69 [] ch = "Q" -> 81
      [] ch = "W" -> 87
DecimalDigits == <<"0", "1", "2", "3", "4", "5", "6", "7", "8", "9">>
RECURSIVE to_string(_)
to_string(n) ==
    IF n < 10 THEN <<DecimalDigits[n + 1]>>
    ELSE to_string(n \div 10) \o <<DecimalDigits[(n % 10) + 1]>>
\* str::to_lowercase, character by character.
to_lowercase(string) ==
    [i \in 1..Len(string) |->
        CASE string[i] = "A" -> "a" [] string[i] = "B" -> "b" [] string[i] = "E" -> "e"
          [] string[i] = "Q" -> "q" [] string[i] = "W" -> "w" [] OTHER -> string[i]]
RECURSIVE repeat(_, _)
\* str::repeat(n), and the slice string[..n]
repeat(string, n) == IF n = 0 THEN <<>> ELSE string \o repeat(string, n - 1)
UpTo(string, n) == SubSeq(string, 1, n)

\* An array of one type with its rows; values() of a string array is the
\* buffer of the bytes of all its rows, one after the other.
Array(type, rows) == [type |-> type, rows |-> rows]
RECURSIVE values(_)
values(rows) ==
    IF rows = <<>> THEN <<>>
    ELSE [i \in 1..Len(Head(rows)) |-> Byte(Head(rows)[i])] \o values(Tail(rows))

\* What a call comes to: an array, a panic, or no function of that name in
\* the package.
NoAnswer == [kind |-> "none", rows |-> <<>>]
Executed(rows) == [kind |-> "ok", rows |-> rows]
Panicked == [kind |-> "panic", rows |-> <<>>]
NotInPackage == [kind |-> "not in package", rows |-> <<>>]
Null == <<"NULL">>

\* LpadFunction::execute(args): the three casts, of which the second is to
\* an Int32 array; then for each row index the index-th byte of the strings'
\* buffer, the index-th size and the index-th byte of the pad strings'
\* buffer, the bytes written as decimal numbers; a null where one is missing.
LpadExecute(args) ==
    IF Len(args) # 3 \/ args[1].type # "Utf8" \/ args[2].type # "Int32"
       \/ args[3].type # "Utf8"
    THEN Panicked
    ELSE LET string_values == values(args[1].rows)
             size_values == args[2].rows
             padstring_values == values(args[3].rows)
         IN Executed([i \in 1..Len(args[1].rows) |->
                IF i > Len(string_values) \/ i > Len(size_values)
                   \/ i > Len(padstring_values)
                THEN Null
                ELSE LET string == to_string(string_values[i])
                         size == size_values[i]
                         padstring == to_string(padstring_values[i])
                     IN IF Len(string) < size
                        THEN UpTo(repeat(padstring, size - Len(string)),
                                  size - Len(string)) \o string
                        ELSE UpTo(string, size)])

\* LowerFunction::execute(args)
LowerExecute(args) ==
    IF Len(args) # 1 \/ args[1].type # "Utf8" THEN Panicked
    ELSE Executed([i \in 1..Len(args[1].rows) |-> to_lowercase(args[1].rows[i])])

\* ScalarFunctionDef::execute of the function of that name.
Execute(name, args) ==
    IF name = "lpad" THEN LpadExecute(args) ELSE LowerExecute(args)

\* FunctionPackage::functions: the names of the functions in the vector.
functions == {"add_one", "multiply_two", "lower"}

\* ScalarFunctionDef::signature: the argument types a call through the
\* package is made with.
signature(name) ==
    IF name = "lpad" THEN <<"Utf8", "Int64", "Utf8">> ELSE <<"Utf8">>

\* The calls: lpad with a string, a size and a pad string, lower with a
\* string; through the package by name, or on the function itself with the
\* sizes in an Int32 array.
MaxSize == 5
LpadArguments ==
    {<<Array("Utf8", <<Chars(s)>>), Array(type, <<n>>), Array("Utf8", <<Chars(pad)>>)>> :
        s \in {"hello", "bc", ""}, n \in 0..MaxSize, pad \in {"a", "rust"},
        type \in {"Int32"}}
LowerArguments == {<<Array("Utf8", <<Chars(s)>>)>> : s \in {"ABc", "QWE", "hello"}}
Calls ==
    {[name |-> "lpad", args |-> a, through |-> th, stage |-> "called"] :
        a \in LpadArguments, th \in {"package", "function"}}
    \cup {[name |-> "lower", args |-> a, through |-> th, stage |-> "called"] :
        a \in LowerArguments, th \in {"package", "function"}}
NoCall == [name |-> "", args |-> <<>>, through |-> "", stage |-> "none"]

\* The function of the call's name is looked for among those of the package.
Lookup ==
    /\ call.stage = "called" /\ call.through = "package"
    /\ IF call.name \in functions
       THEN /\ call' = [call EXCEPT !.stage = "resolved"]
            /\ UNCHANGED outcome
       ELSE /\ call' = [call EXCEPT !.stage = "done"]
            /\ outcome' = NotInPackage
    /\ UNCHANGED <<registries, disk, alive, mode, pc, stack, ret, result, ghosts>>

\* The function found in the package is executed on the arguments, which
\* have the types of its signature.
ExecuteResolved ==
    /\ call.stage = "resolved"
    /\ outcome' = Execute(call.name,
                         [i \in 1..Len(call.args) |->
                             Array(signature(call.name)[i], call.args[i].rows)])
    /\ call' = [call EXCEPT !.stage = "done"]
    /\ UNCHANGED <<registries, disk, alive, mode, pc, stack, ret, result, ghosts>>

\* A caller that holds the function executes it on its own arrays.
ExecuteFunction ==
    /\ call.stage = "called" /\ call.through = "function"
    /\ outcome' = Execute(call.name, call.args)
    /\ call' = [call EXCEPT !.stage = "done"]
    /\ UNCHANGED <<registries, disk, alive, mode, pc, stack, ret, result, ghosts>>

InitWith(conc, gram) ==
    /\ call = NoCall
    /\ outcome = NoAnswer
    /\ VISITED_FILES = {}
    /\ VISITED_CATALOGS = {}
    /\ VISITED_SCHEMAS = {}
    /\ LOCATIONS = {}
    /\ is_file = [f \in Files |-> "unknown"]
    /\ contents = [f \in Files |-> {}]
    /\ alive = TRUE
    /\ exists = [k \in {} |-> TRUE]
    /\ concurrent = conc
    /\ grammar = gram
    /\ pc = [t \in Threads |-> "idle"]
    /\ stack = [t \in Threads |-> <<>>]
    /\ ret = [t \in Threads |-> NoRet]
    /\ result = [t \in Threads |-> None]
    /\ inserted = [f \in Files |-> 0]
    /\ resolved = [f \in Files |-> 0]
    /\ reads = [f \in Files |-> 0]
    /\ direct = [f \in Files |-> 0]
    /\ created = [k \in {} |-> 0]
    /\ calls = 0

\* One parse call after the other.
Init == InitWith(FALSE, FALSE)
\* The callers' threads run their parse calls in parallel.
InitConcurrent == InitWith(TRUE, FALSE)
\* One parse call, of a text that exercises the statement grammar.
InitGrammar == InitWith(FALSE, TRUE)

Top(t) == stack[t][Len(stack[t])]
Running(t) == pc[t] \notin {"idle", "done"}
\* A caller's thread is free to make a parse call.
CanStart(t) ==
    /\ alive /\ ~Running(t) /\ calls < (IF grammar THEN MaxGrammarCalls ELSE MaxCalls)
    /\ concurrent \/ t = 1
At(t, where) == alive /\ pc[t] = where

\* The stack with its innermost parser replaced.
WithTop(t, frame) == [stack[t] EXCEPT ![Len(stack[t])] = frame]

\* One more in a counting function, whose domain grows as needed.
Bump(f, k) == IF k \in DOMAIN f THEN [f EXCEPT ![k] = @ + 1] ELSE (k :> 1) @@ f
Count(f, k) == IF k \in DOMAIN f THEN f[k] ELSE 0

\* What Path::new(path).is_file() may answer now.
IsFileAnswers(path) ==
    IF path \notin Files THEN {"no"}
    ELSE IF is_file[path] = "unknown" THEN {"yes", "no"}
    ELSE {is_file[path]}

\* What exists_full_path(path, start_path) may answer now: whether a
\* workspace root is found from start_path upwards and the path exists under
\* it; as it answered before, if it did.
ExistsAnswers(start_path, path) ==
    IF <<start_path, path>> \in DOMAIN exists THEN {exists[<<start_path, path>>]}
    ELSE BOOLEAN

\* What fs::read_to_string(path) may find now.
ReadAnswers(path) ==
    IF path \notin Files THEN {Unreadable}
    ELSE IF contents[path] # {} THEN contents[path]
    ELSE IF is_file[path] = "no" THEN {Unreadable}
    ELSE FileData

\* ------------------------------------------------- the file-scoped entry

\* DFParser::parse_sql_file, called with the parsers in below under it (none
\* for a caller's own call): the file is read, the prefix is put before its
\* text, and a parser is made for the dispatcher to run.
ParseSqlFileCall(t, below, filename, catalog, schema, table, prefix) ==
    \E data \in ReadAnswers(filename) :
        /\ contents' = IF filename \in Files
                       THEN [contents EXCEPT ![filename] = {data}] ELSE contents
        /\ is_file' = IF filename \in Files /\ data.readable
                      THEN [is_file EXCEPT ![filename] = "yes"] ELSE is_file
        /\ reads' = IF data.readable /\ below # <<>> THEN Bump(reads, filename) ELSE reads
        /\ direct' = IF data.readable /\ below = <<>> THEN Bump(direct, filename) ELSE direct
        /\ UNCHANGED exists
        /\ \/ \* unwrap_or_else(|_| panic!("Unable to read the file {}"))
              /\ ~data.readable
              /\ pc' = [pc EXCEPT ![t] = "done"]
              /\ result' = [result EXCEPT ![t] = Panic]
              /\ stack' = [stack EXCEPT ![t] = <<>>]
              /\ UNCHANGED ret
           \/ \* new_with_dialect_and_scope(...)? : the tokenizer's error is returned
              /\ data.readable /\ ~TokenizeOk(prefix \o data.text)
              /\ IF below = <<>>
                 THEN /\ pc' = [pc EXCEPT ![t] = "done"]
                      /\ result' = [result EXCEPT ![t] =
                                        Err(TokenizerError(<<"Unterminated string literal">>))]
                      /\ stack' = [stack EXCEPT ![t] = <<>>]
                      /\ UNCHANGED ret
                 ELSE /\ pc' = [pc EXCEPT ![t] = "ret"]
                      /\ ret' = [ret EXCEPT ![t] =
                                     [ok |-> FALSE, stmts |-> <<>>,
                                      err |-> TokenizerError(<<"Unterminated string literal">>)]]
                      /\ stack' = [stack EXCEPT ![t] = below]
                      /\ result' = [result EXCEPT ![t] = None]
           \/ /\ data.readable /\ TokenizeOk(prefix \o data.text)
              /\ pc' = [pc EXCEPT ![t] = "loop"]
              /\ stack' = [stack EXCEPT ![t] =
                               Append(below, NewParser("file", prefix \o data.text, Len(prefix),
                                                       filename, catalog, schema, table))]
              /\ result' = [result EXCEPT ![t] = None]
              /\ UNCHANGED ret

\* ------------------------------------------------------- the entry points

CallerTexts == IF grammar THEN GrammarTexts ELSE IF concurrent THEN ShortTexts ELSE Texts

\* DFParser::parse_sql(sql): no scope.
ParseSql(t) ==
    /\ CanStart(t)
    /\ \E sql \in CallerTexts :
        \/ /\ TokenizeOk(sql)
           /\ pc' = [pc EXCEPT ![t] = "loop"]
           /\ stack' = [stack EXCEPT ![t] = <<NewParser("sql", sql, 0, <<>>, "", "", "")>>]
           /\ result' = [result EXCEPT ![t] = None]
        \/ /\ ~TokenizeOk(sql)
           /\ pc' = [pc EXCEPT ![t] = "done"]
           /\ result' = [result EXCEPT ![t] =
                             Err(TokenizerError(<<"Unterminated string literal">>))]
           /\ UNCHANGED stack
    /\ calls' = calls + 1
    /\ UNCHANGED <<registries, disk, alive, mode, evaluation, ret, inserted, resolved, reads, direct, created>>

\* The scopes a caller parses a text in.
Scopes == {[filename |-> <<"top", ".sql">>, catalog |-> "c", schema |-> "s", table |-> ""],
           [filename |-> <<"top", ".sql">>, catalog |-> "c", schema |-> "s", table |-> "t"]}

\* DFParser::parse_sql_with_scope(sql, filename, catalog, schema, table)
ParseSqlWithScope(t) ==
    /\ CanStart(t)
    /\ \E sql \in CallerTexts, sc \in Scopes :
        \/ /\ TokenizeOk(sql)
           /\ pc' = [pc EXCEPT ![t] = "loop"]
           /\ stack' = [stack EXCEPT ![t] =
                            <<NewParser("scope", sql, 0, sc.filename, sc.catalog, sc.schema,
                                        sc.table)>>]
           /\ result' = [result EXCEPT ![t] = None]
        \/ /\ ~TokenizeOk(sql)
           /\ pc' = [pc EXCEPT ![t] = "done"]
           /\ result' = [result EXCEPT ![t] =
                             Err(TokenizerError(<<"Unterminated string literal">>))]
           /\ UNCHANGED stack
    /\ calls' = calls + 1
    /\ UNCHANGED <<registries, disk, alive, mode, evaluation, ret, inserted, resolved, reads, direct, created>>

\* A caller's own DFParser::parse_sql_file(dialect, filename, catalog, schema,
\* table, prefix), here on a schema or table file with its own scope.
ParseSqlFile(t) ==
    /\ CanStart(t)
    /\ \E filename \in Files :
        ParseSqlFileCall(t, <<>>, filename, filename[1], filename[3],
                         IF Len(filename) = 6 THEN filename[5] ELSE "", <<>>)
    /\ calls' = calls + 1
    /\ UNCHANGED <<registries, alive, mode, evaluation, inserted, resolved, created>>

\* ------------------------------------------------------------------ visit

\* What a caller marks as visited: a file that USE resolves to with its own
\* catalog and schema, and a file of another schema of that catalog.
Visits ==
    {[filename |-> SchemaFilename("c", "s"), catalog |-> "c", schema |-> "s"],
     [filename |-> <<"x", ".sql">>, catalog |-> "c", schema |-> "q"]}

\* visit that marks the file and the schema only.
VisitWithoutCatalog(t) ==
    /\ CanStart(t)
    /\ \E v \in Visits :
        /\ VISITED_FILES' = VISITED_FILES \cup {v.filename}
        /\ stack' = [stack EXCEPT ![t] =
                         <<NewParser("visit", <<>>, 0, v.filename, v.catalog, v.schema, "")>>]
    /\ pc' = [pc EXCEPT ![t] = "visit_schemas"]
    /\ result' = [result EXCEPT ![t] = None]
    /\ calls' = calls + 1
    /\ UNCHANGED <<VISITED_CATALOGS, VISITED_SCHEMAS, LOCATIONS, disk, alive, mode, evaluation, ret,
                   inserted, resolved, reads, direct, created>>

\* visit(filename, catalog, schema), up to the first of its three locks:
\* VISITED_FILES.lock().unwrap().insert(filename.to_owned()). The arguments
\* are kept as the scope of a parser that parses nothing.
Visit(t) ==
    /\ CanStart(t)
    /\ \E v \in Visits :
        /\ VISITED_FILES' = VISITED_FILES \cup {v.filename}
        /\ stack' = [stack EXCEPT ![t] =
                         <<NewParser("visit", <<>>, 0, v.filename, v.catalog, v.schema, "")>>]
    /\ pc' = [pc EXCEPT ![t] = "visit_catalogs"]
    /\ result' = [result EXCEPT ![t] = None]
    /\ calls' = calls + 1
    /\ UNCHANGED <<VISITED_CATALOGS, VISITED_SCHEMAS, LOCATIONS, disk, alive, mode, evaluation, ret,
                   inserted, resolved, reads, direct, created>>

\* VISITED_CATALOGS.lock().unwrap().insert(catalog.to_owned());
VisitCatalog(t) ==
    /\ At(t, "visit_catalogs")
    /\ VISITED_CATALOGS' = VISITED_CATALOGS \cup {Top(t).catalog}
    /\ pc' = [pc EXCEPT ![t] = "visit_schemas"]
    /\ UNCHANGED <<VISITED_FILES, VISITED_SCHEMAS, LOCATIONS, disk, alive, mode, evaluation, stack, ret,
                   result, ghosts>>

\* VisitSchema that returns without marking the schema.
VisitSchemaUnmarked(t) ==
    /\ At(t, "visit_schemas")
    /\ pc' = [pc EXCEPT ![t] = "done"]
    /\ stack' = [stack EXCEPT ![t] = <<>>]
    /\ UNCHANGED <<registries, disk, alive, mode, evaluation, ret, result, ghosts>>

\* VISITED_SCHEMAS.lock().unwrap().insert(format!("{}.{}", catalog, schema));
\* and visit returns.
VisitSchema(t) ==
    /\ At(t, "visit_schemas")
    /\ VISITED_SCHEMAS' = VISITED_SCHEMAS \cup {SchemaId(Top(t).catalog, Top(t).schema)}
    /\ pc' = [pc EXCEPT ![t] = "done"]
    /\ stack' = [stack EXCEPT ![t] = <<>>]
    /\ UNCHANGED <<VISITED_FILES, VISITED_CATALOGS, LOCATIONS, disk, alive, mode, evaluation, ret,
                   result, ghosts>>

\* --------------------------------------------------------- the dispatcher

\* The cursor of the innermost parser after the empty statements.
Start(t) == SkipSemis(Top(t).toks, Top(t).pos)
\* expecting_statement_delimiter after the empty statements: consuming a
\* delimiter clears it.
Expecting(t) == Top(t).expecting /\ Start(t) = Top(t).pos
First(t) == Peek(Top(t).toks, Start(t))

\* Returns that gives the statements collected so far in the place of an error.
ReturnsParsed(t, frame, value) ==
    /\ pc' = [pc EXCEPT ![t] = "ret"]
    /\ stack' = [stack EXCEPT ![t] = WithTop(t, frame)]
    /\ ret' = [ret EXCEPT ![t] = [ok |-> TRUE, stmts |-> frame.stmts, err |-> NoError]]

\* parse_statements returns what it has, or an error, to its entry point.
Returns(t, frame, value) ==
    /\ pc' = [pc EXCEPT ![t] = "ret"]
    /\ stack' = [stack EXCEPT ![t] = WithTop(t, frame)]
    /\ ret' = [ret EXCEPT ![t] = value]

\* Continues that does not ask for a delimiter after the statement.
ContinuesNotExpecting(t, frame, stms, pos) ==
    /\ pc' = [pc EXCEPT ![t] = "loop"]
    /\ stack' = [stack EXCEPT ![t] =
                     WithTop(t, [frame EXCEPT !.stmts = @ \o stms, !.pos = pos,
                                              !.expecting = FALSE, !.use = NoUse])]
    /\ UNCHANGED ret

\* The statement the innermost parser was on is done, with these statements:
\* stmts.extend(stms); expecting_statement_delimiter = true.
Continues(t, frame, stms, pos) ==
    /\ pc' = [pc EXCEPT ![t] = "loop"]
    /\ stack' = [stack EXCEPT ![t] =
                     WithTop(t, [frame EXCEPT !.stmts = @ \o stms, !.pos = pos,
                                              !.expecting = TRUE, !.use = NoUse])]
    /\ UNCHANGED ret

\* The end of the input: Ok(stmts).
DispatchEnd(t) ==
    /\ At(t, "loop")
    /\ First(t) = EOF
    /\ Returns(t, Top(t), [ok |-> TRUE, stmts |-> Top(t).stmts, err |-> NoError])
    /\ UNCHANGED <<registries, disk, alive, mode, evaluation, result, ghosts>>

\* A statement follows another without a delimiter, or starts with a token
\* that is no word: "Expected End of statement".
DispatchExpectedEnd(t) ==
    /\ At(t, "loop")
    /\ First(t) # EOF
    /\ Expecting(t) \/ ~IsWord(First(t))
    /\ Returns(t, Top(t), [ok |-> FALSE, stmts |-> <<>>,
                           err |-> Expected("End of statement", First(t))])
    /\ UNCHANGED <<registries, disk, alive, mode, evaluation, result, ghosts>>

\* A statement that does not start with USE: prev_token, parse_statement.
DispatchStatement(t) ==
    /\ At(t, "loop")
    /\ ~Expecting(t) /\ IsWord(First(t)) /\ First(t) # "USE"
    /\ LET f == Top(t)
       IN \E answer \in BOOLEAN :
           \E r \in {ParseStatement(f.toks, Start(t), f.catalog, f.schema, f.filename, answer)} :
              /\ IF r.asked
                 THEN /\ answer \in ExistsAnswers(f.filename, r.path)
                      /\ exists' = (<<f.filename, r.path>> :> answer) @@ exists
                 ELSE /\ answer
                      /\ UNCHANGED exists
              /\ LOCATIONS' = IF r.location # <<>> THEN LOCATIONS \cup {r.location}
                              ELSE LOCATIONS
              /\ \/ /\ r.ok
                    /\ Continues(t, f, <<[stmt |-> r.stmt, meta |-> r.meta, at |-> Start(t),
                                          preamble |-> Start(t) <= f.prelen]>>, r.pos)
                    /\ UNCHANGED result
                 \/ /\ ~r.ok /\ ~r.panic
                    /\ Returns(t, f, [ok |-> FALSE, stmts |-> <<>>, err |-> r.err])
                    /\ UNCHANGED result
                 \/ \* todo!(): the thread of the session unwinds
                    /\ r.panic
                    /\ pc' = [pc EXCEPT ![t] = "done"]
                    /\ result' = [result EXCEPT ![t] = Panic]
                    /\ stack' = [stack EXCEPT ![t] = <<>>]
                    /\ UNCHANGED ret
    /\ UNCHANGED <<VISITED_FILES, VISITED_CATALOGS, VISITED_SCHEMAS, is_file, contents, alive,
                   mode, evaluation, ghosts>>

AtUse(t) == At(t, "loop") /\ ~Expecting(t) /\ First(t) = "USE"
\* The identifier path of the USE the innermost parser is on.
Path(t) == UsePath(Top(t).toks, Start(t) + 1)

\* USE followed by a token that is no word: "Expected Object identifier".
UseNoIdentifier(t) ==
    /\ AtUse(t)
    /\ ~Path(t).ok
    /\ Returns(t, Top(t), [ok |-> FALSE, stmts |-> <<>>,
                           err |-> Expected("Object identifier", Path(t).catalog)])
    /\ UNCHANGED <<registries, disk, alive, mode, evaluation, result, ghosts>>

\* UseNoCatalog that marks the catalog as visited all the same.
UseNoCatalogMarks(t) ==
    /\ AtUse(t)
    /\ Path(t).ok
    /\ Top(t).catalog = ""
    /\ Continues(t, Top(t), <<>>, Path(t).pos)
    /\ VISITED_CATALOGS' = VISITED_CATALOGS \cup {Path(t).catalog}
    /\ UNCHANGED <<VISITED_FILES, VISITED_SCHEMAS, LOCATIONS, disk, alive, mode, evaluation, result,
                   ghosts>>

\* USE in a scope without a catalog: skipped.
UseNoCatalog(t) ==
    /\ AtUse(t)
    /\ Path(t).ok
    /\ Top(t).catalog = ""
    /\ Continues(t, Top(t), <<>>, Path(t).pos)
    /\ UNCHANGED <<registries, disk, alive, mode, evaluation, result, ghosts>>

\* USE in a catalog: the two candidate files are looked for on the disk.
UseLookup(t) ==
    /\ AtUse(t)
    /\ Path(t).ok
    /\ Top(t).catalog # ""
    /\ LET u == Path(t)
           table_filename == TableFilename(u.catalog, u.schema, u.table)
           schema_filename == SchemaFilename(u.catalog, u.schema)
       IN \E ta \in IsFileAnswers(table_filename), sa \in IsFileAnswers(schema_filename) :
            LET r == Resolve(u.catalog, u.schema, u.table, ta = "yes", sa = "yes")
            IN /\ is_file' = [f \in Files |->
                                  IF f = table_filename THEN ta
                                  ELSE IF f = schema_filename THEN sa ELSE is_file[f]]
               /\ \/ /\ ~r.found
                     /\ Returns(t, Top(t), [ok |-> FALSE, stmts |-> <<>>,
                                            err |-> MissingFile(schema_filename, table_filename)])
                  \/ /\ r.found
                     /\ pc' = [pc EXCEPT ![t] = "use_files"]
                     /\ stack' = [stack EXCEPT ![t] =
                                      WithTop(t, [Top(t) EXCEPT
                                          !.pos = u.pos,
                                          !.use = [NoUse EXCEPT !.catalog = u.catalog,
                                                                !.schema = u.schema,
                                                                !.table = u.table,
                                                                !.filename = r.filename,
                                                                !.is_table = r.is_table]])]
                     /\ UNCHANGED ret
               /\ resolved' = IF r.found THEN Bump(resolved, r.filename) ELSE resolved
    /\ UNCHANGED <<registries, contents, exists, alive, mode, evaluation, result, inserted, reads, direct,
                   created, calls>>

\* UseVisitedFiles without its test: the file counts as not yet visited.
UseVisitedFilesUnchecked(t) ==
    /\ At(t, "use_files")
    /\ pc' = [pc EXCEPT ![t] = "use_files_insert"]
    /\ UNCHANGED <<registries, disk, alive, mode, evaluation, stack, ret, result, ghosts>>

\* if VISITED_FILES.lock().unwrap().contains(&filename) { return Ok(VecDeque::new()) }
UseVisitedFiles(t) ==
    /\ At(t, "use_files")
    /\ \/ /\ Top(t).use.filename \in VISITED_FILES
          /\ Continues(t, Top(t), <<>>, Top(t).pos)
       \/ /\ Top(t).use.filename \notin VISITED_FILES
          /\ pc' = [pc EXCEPT ![t] = "use_files_insert"]
          /\ UNCHANGED <<stack, ret>>
    /\ UNCHANGED <<registries, disk, alive, mode, evaluation, result, ghosts>>

\* VISITED_FILES.lock().unwrap().insert(filename.to_owned())
UseInsertFile(t) ==
    /\ At(t, "use_files_insert")
    /\ VISITED_FILES' = VISITED_FILES \cup {Top(t).use.filename}
    /\ inserted' = Bump(inserted, Top(t).use.filename)
    /\ pc' = [pc EXCEPT ![t] = "use_catalogs"]
    /\ UNCHANGED <<VISITED_CATALOGS, VISITED_SCHEMAS, LOCATIONS, disk, alive, mode, evaluation,
                   stack, ret, result, resolved, reads, direct, created, calls>>

\* UseVisitedCatalogs without its test: the catalog counts as not yet visited.
UseVisitedCatalogsUnchecked(t) ==
    /\ At(t, "use_catalogs")
    /\ pc' = [pc EXCEPT ![t] = "use_catalogs_insert"]
    /\ UNCHANGED <<registries, disk, alive, mode, evaluation, stack, ret, result, ghosts>>

\* if !VISITED_CATALOGS.lock().unwrap().contains(&catalog)
UseVisitedCatalogs(t) ==
    /\ At(t, "use_catalogs")
    /\ pc' = [pc EXCEPT ![t] = IF Top(t).use.catalog \in VISITED_CATALOGS
                               THEN "use_schemas" ELSE "use_catalogs_insert"]
    /\ UNCHANGED <<registries, disk, alive, mode, evaluation, stack, ret, result, ghosts>>

\* VISITED_CATALOGS.lock().unwrap().insert(catalog.to_owned());
\* created_catalog = format!("CREATE DATABASE {};\n", &catalog)
UseInsertCatalog(t) ==
    /\ At(t, "use_catalogs_insert")
    /\ VISITED_CATALOGS' = VISITED_CATALOGS \cup {Top(t).use.catalog}
    /\ stack' = [stack EXCEPT ![t] =
                     WithTop(t, [Top(t) EXCEPT !.use.created_catalog =
                                                   CreateDatabaseText(Top(t).use.catalog)])]
    /\ created' = Bump(created, <<Top(t).use.catalog>>)
    /\ pc' = [pc EXCEPT ![t] = "use_schemas"]
    /\ UNCHANGED <<VISITED_FILES, VISITED_SCHEMAS, LOCATIONS, disk, alive, mode, evaluation,
                   ret, result, inserted, resolved, reads, direct, calls>>

\* if !VISITED_SCHEMAS.lock().unwrap().contains(&schema_id)
UseVisitedSchemas(t) ==
    /\ At(t, "use_schemas")
    /\ pc' = [pc EXCEPT ![t] =
                  IF SchemaId(Top(t).use.catalog, Top(t).use.schema) \in VISITED_SCHEMAS
                  THEN "use_parse" ELSE "use_schemas_insert"]
    /\ UNCHANGED <<registries, disk, alive, mode, evaluation, stack, ret, result, ghosts>>

\* VISITED_SCHEMAS.lock().unwrap().insert(schema_id);
\* created_schema = format!("CREATE SCHEMA {}.{};\n", &catalog, &schema)
UseInsertSchema(t) ==
    /\ At(t, "use_schemas_insert")
    /\ VISITED_SCHEMAS' = VISITED_SCHEMAS \cup {SchemaId(Top(t).use.catalog, Top(t).use.schema)}
    /\ stack' = [stack EXCEPT ![t] =
                     WithTop(t, [Top(t) EXCEPT !.use.created_schema =
                                     CreateSchemaText(Top(t).use.catalog, Top(t).use.schema)])]
    /\ created' = Bump(created, SchemaId(Top(t).use.catalog, Top(t).use.schema))
    /\ pc' = [pc EXCEPT ![t] = "use_parse"]
    /\ UNCHANGED <<VISITED_FILES, VISITED_CATALOGS, LOCATIONS, disk, alive, mode, evaluation,
                   ret, result, inserted, resolved, reads, direct, calls>>

\* UseParseFile with the two preambles joined the other way round.
UseParseFileSchemaFirst(t) ==
    /\ At(t, "use_parse")
    /\ LET u == Top(t).use
       IN ParseSqlFileCall(t, stack[t], u.filename, u.catalog, u.schema,
                           IF u.is_table THEN u.table ELSE "",
                           u.created_schema \o u.created_catalog)
    /\ UNCHANGED <<registries, alive, mode, evaluation, inserted, resolved, created, calls>>

\* Self::parse_sql_file(&GenericDialect {}, filename, catalog, schema,
\*     if is_table { table } else { String::new() }, created_catalog + &created_schema)
UseParseFile(t) ==
    /\ At(t, "use_parse")
    /\ LET u == Top(t).use
       IN ParseSqlFileCall(t, stack[t], u.filename, u.catalog, u.schema,
                           IF u.is_table THEN u.table ELSE "",
                           u.created_catalog \o u.created_schema)
    /\ UNCHANGED <<registries, alive, mode, evaluation, inserted, resolved, created, calls>>

\* ------------------------------------------------ what the entry points return

AtRet(t, entry) == At(t, "ret") /\ Top(t).entry = entry

\* The session's entry point returns value to the caller.
Finishes(t, value) ==
    /\ pc' = [pc EXCEPT ![t] = "done"]
    /\ stack' = [stack EXCEPT ![t] = <<>>]
    /\ ret' = [ret EXCEPT ![t] = NoRet]
    /\ result' = [result EXCEPT ![t] = value]

\* FileReturn after which the parser that met the USE goes on under the
\* nested file's scope.
FileReturnInNestedScope(t) ==
    /\ AtRet(t, "file")
    /\ ret[t].ok
    /\ \/ /\ Len(stack[t]) = 1
          /\ Finishes(t, Ok(ret[t].stmts))
       \/ /\ Len(stack[t]) > 1
          /\ LET outer == stack[t][Len(stack[t]) - 1]
             IN /\ pc' = [pc EXCEPT ![t] = "loop"]
                /\ stack' = [stack EXCEPT ![t] =
                                 Append(SubSeq(stack[t], 1, Len(stack[t]) - 2),
                                        [outer EXCEPT !.stmts = @ \o ret[t].stmts,
                                                      !.expecting = TRUE, !.use = NoUse,
                                                      !.catalog = Top(t).catalog,
                                                      !.schema = Top(t).schema,
                                                      !.table = Top(t).table,
                                                      !.filename = Top(t).filename])]
                /\ ret' = [ret EXCEPT ![t] = NoRet]
                /\ UNCHANGED result
    /\ UNCHANGED <<registries, disk, alive, mode, evaluation, ghosts>>

\* parse_sql_file after parse_statements: Ok(res) => Ok(res), to the USE that
\* called it or to the caller.
FileReturn(t) ==
    /\ AtRet(t, "file")
    /\ ret[t].ok
    /\ \/ /\ Len(stack[t]) = 1
          /\ Finishes(t, Ok(ret[t].stmts))
       \/ /\ Len(stack[t]) > 1
          /\ LET outer == stack[t][Len(stack[t]) - 1]
             IN /\ pc' = [pc EXCEPT ![t] = "loop"]
                /\ stack' = [stack EXCEPT ![t] =
                                 Append(SubSeq(stack[t], 1, Len(stack[t]) - 2),
                                        [outer EXCEPT !.stmts = @ \o ret[t].stmts,
                                                      !.expecting = TRUE, !.use = NoUse])]
                /\ ret' = [ret EXCEPT ![t] = NoRet]
                /\ UNCHANGED result
    /\ UNCHANGED <<registries, disk, alive, mode, evaluation, ghosts>>

\* parse_sql_file after parse_statements: Err(err) => { error!(...); exit(1) }
FileExit(t) ==
    /\ AtRet(t, "file")
    /\ ~ret[t].ok
    /\ alive' = FALSE
    /\ UNCHANGED <<registries, disk, mode, evaluation, pc, stack, ret, result, ghosts>>

\* format!("'{}': {}", &filename, err.to_string())
Wrapped(filename, err) == ParserError(<<"'">> \o filename \o <<"': ">> \o err.msg)

\* parse_sql_with_dialect_and_scope after parse_statements.
ScopeReturn(t) ==
    /\ AtRet(t, "scope")
    /\ Finishes(t, IF ret[t].ok THEN Ok(ret[t].stmts)
                   ELSE Err(Wrapped(Top(t).filename, ret[t].err)))
    /\ UNCHANGED <<registries, disk, alive, mode, evaluation, ghosts>>

\* list.into_iter().map(|elem| elem.0)
Statements(stmts) == [i \in 1..Len(stmts) |-> [stmts[i] EXCEPT !.meta = StatementMeta("", "", "", <<>>)]]

\* parse_sql_with_dialect after parse_statements.
SqlReturn(t) ==
    /\ AtRet(t, "sql")
    /\ Finishes(t, IF ret[t].ok THEN Ok(Statements(ret[t].stmts)) ELSE Err(ret[t].err))
    /\ UNCHANGED <<registries, disk, alive, mode, evaluation, ghosts>>

Next ==
    \E t \in Threads :
        \/ ParseSql(t)
        \/ ParseSqlWithScope(t)
        \/ ParseSqlFile(t)
        \/ Visit(t)
        \/ VisitCatalog(t)
        \/ VisitSchema(t)
        \/ DispatchEnd(t)
        \/ DispatchExpectedEnd(t)
        \/ DispatchStatement(t)
        \/ UseNoIdentifier(t)
        \/ UseNoCatalog(t)
        \/ UseLookup(t)
        \/ UseVisitedFiles(t)
        \/ UseInsertFile(t)
        \/ UseVisitedCatalogs(t)
        \/ UseInsertCatalog(t)
        \/ UseVisitedSchemas(t)
        \/ UseInsertSchema(t)
        \/ UseParseFile(t)
        \/ FileReturn(t)
        \/ FileExit(t)
        \/ ScopeReturn(t)
        \/ SqlReturn(t)

\* The parse calls of a process made one after the other.
Spec == Init /\ [][Next]_vars
\* The parse calls of a process made by threads that run in parallel.
SpecConcurrent == InitConcurrent /\ [][Next]_vars
\* The callers hand in the texts that exercise the statement grammar.
SpecGrammar == InitGrammar /\ [][Next]_vars

\* The calls of the scalar functions: no parser runs.
InitFunctions ==
    /\ call \in Calls
    /\ outcome = NoAnswer
    /\ VISITED_FILES = {}
    /\ VISITED_CATALOGS = {}
    /\ VISITED_SCHEMAS = {}
    /\ LOCATIONS = {}
    /\ is_file = [f \in Files |-> "unknown"]
    /\ contents = [f \in Files |-> {}]
    /\ alive = TRUE
    /\ exists = [k \in {} |-> TRUE]
    /\ concurrent = FALSE
    /\ grammar = FALSE
    /\ pc = [t \in Threads |-> "idle"]
    /\ stack = [t \in Threads |-> <<>>]
    /\ ret = [t \in Threads |-> NoRet]
    /\ result = [t \in Threads |-> None]
    /\ inserted = [f \in Files |-> 0]
    /\ resolved = [f \in Files |-> 0]
    /\ reads = [f \in Files |-> 0]
    /\ direct = [f \in Files |-> 0]
    /\ created = [k \in {} |-> 0]
    /\ calls = 0
NextFunctions == Lookup \/ ExecuteResolved \/ ExecuteFunction
SpecFunctions == InitFunctions /\ [][NextFunctions]_vars

\* ------------------------------------------------------------- the claims

Stopped == alive /\ \A t \in Threads : ~Running(t)

C3_VisitedIsSkipped ==
    [][\A t \in Threads :
          (/\ At(t, "use_files")
           /\ Top(t).use.filename \in VISITED_FILES
           /\ pc'[t] # pc[t])
          => /\ registries' = registries
             /\ disk' = disk /\ reads' = reads /\ inserted' = inserted
             /\ alive' /\ pc'[t] = "loop" /\ ret'[t] = ret[t]
             /\ Len(stack'[t]) = Len(stack[t])
             /\ stack'[t][Len(stack'[t])].stmts = Top(t).stmts
             /\ stack'[t][Len(stack'[t])].expecting]_vars

\* A caller's text has used a file twice: the parser stands after the second
\* USE, the file was inserted once.
C3_Witness ==
    \E t \in Threads, f \in Files :
        /\ pc[t] = "loop" /\ Len(stack[t]) = 1 /\ calls = 1
        /\ Top(t).expecting /\ Peek(Top(t).toks, Top(t).pos) = EOF
        /\ resolved[f] = 2 /\ inserted[f] = 1 /\ reads[f] = 1
        /\ contents[f] = {[readable |-> TRUE, text |-> Select]}

\* The depth of the USE chain of a session: the parsers parse_use has made
\* and that are still at work.
Depth(t) == IF stack[t] = <<>> THEN 0 ELSE Len(stack[t]) - 1
\* The files a USE can resolve to: those the disk was found to hold.
Resolvable == {f \in Files : is_file[f] = "yes"}

\* What is left to do in a session, compared in this order: the files no USE
\* has read yet; the tokens its parsers have not passed (a USE at the end of a
\* text moves the cursor up to four places past it); how far the innermost
\* parser is from the end of what it is doing.
RECURSIVE TokensLeft(_)
TokensLeft(frames) ==
    IF frames = <<>> THEN 0
    ELSE Len(Head(frames).toks) + 5 - Head(frames).pos + TokensLeft(Tail(frames))
Weight(where) ==
    CASE where = "use_files" -> 9
      [] where = "use_files_insert" -> 8
      [] where = "use_catalogs" -> 7
      [] where = "use_catalogs_insert" -> 6
      [] where = "use_schemas" -> 5
      [] where = "use_schemas_insert" -> 4
      [] where = "use_parse" -> 3
      [] where = "loop" -> 2
      [] where = "ret" -> 1
      [] where = "visit_catalogs" -> 2
      [] where = "visit_schemas" -> 1
      [] OTHER -> 0
Unread(r) == Cardinality({f \in Files : r[f] = 0})
Less(a, b) ==
    \/ a[1] < b[1]
    \/ a[1] = b[1] /\ a[2] < b[2]
    \/ a[1] = b[1] /\ a[2] = b[2] /\ a[3] < b[3]

C5_OneSessionOnly ==
    /\ \A f \in Files : inserted[f] <= 1 /\ reads[f] <= 1
    /\ \A k \in DOMAIN created : created[k] <= 1

\* Whether the disk was found to hold the file.
Found(answers, path) == path \in Files /\ answers[path] = "yes"
IsFile(path) == Found(is_file, path)

\* C6: for USE c.s.t in a catalog context, when the table file c/s/t.sql
\* exists it is the file parsed, in the scope (c, s, t, c/s/t.sql), even when
\* the schema file c/s.sql exists too; otherwise, when c/s.sql exists, it is
\* the file parsed and the table of the scope is empty.
C6_TableFileFirst ==
    \A t \in Threads : \A i \in 2..Len(stack[t]) :
        LET u == stack[t][i - 1].use
            nested == stack[t][i]
            table_filename == <<u.catalog, "/", u.schema, "/", u.table, ".sql">>
            schema_filename == <<u.catalog, "/", u.schema, ".sql">>
        IN /\ nested.catalog = u.catalog /\ nested.schema = u.schema
           /\ IsFile(table_filename)
                => nested.filename = table_filename /\ nested.table = u.table
           /\ ~IsFile(table_filename)
                => /\ IsFile(schema_filename)
                   /\ nested.filename = schema_filename /\ nested.table = ""

\* USE c.s.t is parsing the table file while the schema file exists too, and
\* inside it USE d.s.t is parsing the schema file of d, there being no table
\* file.
C6_Witness ==
    \E t \in Threads :
        /\ Len(stack[t]) = 3 /\ pc[t] = "loop"
        /\ stack[t][1].use.table = "t" /\ stack[t][2].use.table = "t"
        /\ IsFile(SchemaFilename("c", "s"))
        /\ stack[t][2].filename = TableFilename("c", "s", "t") /\ stack[t][2].table = "t"
        /\ stack[t][3].filename = SchemaFilename("d", "s") /\ stack[t][3].table = ""

\* The session has taken a step.
Stepped(t) == <<pc[t], stack[t]>>' # <<pc[t], stack[t]>>

C8_NoCatalogNoOp ==
    [][\A t \in Threads :
          (AtUse(t) /\ Path(t).ok /\ Top(t).catalog = "" /\ Stepped(t))
          => /\ alive' /\ pc'[t] = "loop" /\ ret'[t] = ret[t]
             /\ Len(stack'[t]) = Len(stack[t])
             /\ stack'[t][Len(stack'[t])].stmts = Top(t).stmts
             /\ stack'[t][Len(stack'[t])].pos > Top(t).pos
             /\ registries' = registries /\ disk' = disk
             /\ <<inserted, resolved, reads, direct, created>>'
                  = <<inserted, resolved, reads, direct, created>>]_vars

\* parse_sql has passed USE c.s.t, with nothing to show for it, while the
\* table file is known to exist and was never visited.
C8_Witness ==
    \E t \in Threads :
        /\ pc[t] = "loop" /\ Len(stack[t]) = 1 /\ Top(t).entry = "sql"
        /\ Top(t).toks = UseCST /\ Top(t).pos > Len(UseCST)
        /\ Top(t).stmts = <<>>
        /\ IsFile(TableFilename("c", "s", "t"))
        /\ TableFilename("c", "s", "t") \notin VISITED_FILES

\* The positions of seq whose element satisfies test.
Where(seq, test(_)) == {i \in 1..Len(seq) : test(seq[i])}
IsKind(kind, item) == item.stmt.kind = kind

\* C9, as stated: what the first USE of a file returns is the CREATE DATABASE
\* preamble, if any, the CREATE SCHEMA preamble, if any, and then the
\* statements of the file: it holds one CREATE DATABASE and one CREATE SCHEMA
\* preamble statement at most.
C9_AtMostOnePreamble ==
    \A t \in Threads :
        (pc[t] = "ret" /\ Len(stack[t]) > 1 /\ Top(t).entry = "file" /\ ret[t].ok)
        => LET out == ret[t].stmts
               IsDatabase(item) == item.preamble /\ IsKind("CreateDatabase", item)
               IsSchema(item) == item.preamble /\ IsKind("CreateSchema", item)
           IN /\ Cardinality(Where(out, IsDatabase)) <= 1
              /\ Cardinality(Where(out, IsSchema)) <= 1

\* C9, amended: what the first USE of a file returns starts with the preamble
\* prepared by that USE, CREATE DATABASE c if the catalog was new and then
\* CREATE SCHEMA c.s if the pair was new; no other statement of it is of that
\* preamble, and the statements of the file are all there, in file order.
\* What the USE statements inside the file return is in the sequence too,
\* their own preambles included.
C9_OwnPreambleFirst ==
    \A t \in Threads :
        (pc[t] = "ret" /\ Len(stack[t]) > 1 /\ Top(t).entry = "file" /\ ret[t].ok)
        => LET out == ret[t].stmts
               file == Top(t)
               u == stack[t][Len(stack[t]) - 1].use
               database == IF u.created_catalog # <<>> THEN 1 ELSE 0
               schema == IF u.created_schema # <<>> THEN 1 ELSE 0
               IsOwn(item) == item.meta.filename = file.filename
               IsPreamble(item) == IsOwn(item) /\ item.preamble
               IsStatement(item) == IsOwn(item) /\ ~item.preamble
           IN /\ Where(out, IsPreamble) = 1..(database + schema)
              /\ database = 1 => /\ out[1].stmt.kind = "CreateDatabase"
                                 /\ out[1].stmt.name = <<u.catalog>>
              /\ schema = 1 => /\ out[database + 1].stmt.kind = "CreateSchema"
                               /\ out[database + 1].stmt.name = <<u.catalog, u.schema>>
              /\ {out[i].at : i \in Where(out, IsStatement)}
                   = {i \in (file.prelen + 1)..Len(file.toks) : file.toks[i] = "SELECT"}
              /\ \A i, j \in Where(out, IsStatement) : i < j => out[i].at < out[j].at

\* USE c.s has returned from the schema file: both preambles, then the
\* first statement of the file, then what the USE of the table file inside
\* it has returned, then the second statement of the file.
C9_Witness ==
    \E t \in Threads :
        /\ pc[t] = "ret" /\ Len(stack[t]) = 2 /\ Top(t).entry = "file" /\ ret[t].ok
        /\ Top(t).filename = SchemaFilename("c", "s")
        /\ Len(ret[t].stmts) = 5
        /\ ret[t].stmts[1].stmt.kind = "CreateDatabase"
        /\ ret[t].stmts[2].stmt.kind = "CreateSchema"
        /\ ret[t].stmts[3].meta.filename = SchemaFilename("c", "s")
        /\ ret[t].stmts[4].meta.filename = TableFilename("c", "s", "t")
        /\ ret[t].stmts[5].meta.filename = SchemaFilename("c", "s")

\* C10: when a statement of a file that a USE resolved to fails to parse, the
\* error is handed as an error value, wrapped with the name of that file, to
\* the parser that met the USE, and the process lives on.
C10_NestedErrorPropagates ==
    [][\A t \in Threads :
          (/\ At(t, "ret") /\ Len(stack[t]) > 1 /\ Top(t).entry = "file" /\ ~ret[t].ok
           /\ vars' # vars)
          => /\ alive'
             /\ pc'[t] = "ret" /\ Len(stack'[t]) = Len(stack[t]) - 1
             /\ ~ret'[t].ok
             /\ ret'[t].err.msg = <<"'">> \o Top(t).filename \o <<"': ">> \o ret[t].err.msg]_vars

\* C11: when parse_sql_file cannot read its file, in a caller's own call or in
\* the call a USE makes, the session neither returns an error value nor
\* statements: it panics, and with it go all the parsers of the session and
\* the statements they had collected.
C11_ReadFailureIsFatal ==
    [][\A t \in Threads :
          (\/ ParseSqlFile(t) /\ direct' = direct
           \/ /\ At(t, "use_parse") /\ Stepped(t)
              /\ contents'[Top(t).use.filename] = {Unreadable})
          => /\ pc'[t] = "done"
             /\ result'[t].kind = "panic" /\ result'[t].stmts = <<>>
             /\ stack'[t] = <<>>]_vars

\* A USE inside the schema file has resolved to the table file, which is a
\* file and cannot be read: the session has panicked, two parsers deep.
C11_Witness ==
    \E t \in Threads :
        /\ pc[t] = "done" /\ result[t].kind = "panic" /\ stack[t] = <<>>
        /\ contents[TableFilename("c", "s", "t")] = {Unreadable}
        /\ is_file[TableFilename("c", "s", "t")] = "yes"
        /\ resolved[TableFilename("c", "s", "t")] = 1
        /\ reads[SchemaFilename("c", "s")] = 1

\* C12: in the dispatcher a delimiter must be consumed after every statement,
\* a USE that gave no statement included: the flag that asks for it is set
\* whenever a parser is back in its loop after a statement, and a parser whose
\* flag is set and whose next token is neither a delimiter nor the end of the
\* input returns the error "Expected End of statement, found: <token>".
C12_DelimiterRequired ==
    [][\A t \in Threads :
          /\ (Stepped(t) /\ pc'[t] = "loop" /\ stack[t] # <<>>
                 /\ Len(stack'[t]) <= Len(stack[t]))
             => stack'[t][Len(stack'[t])].expecting
          /\ (At(t, "loop") /\ Stepped(t) /\ Top(t).expecting
                 /\ Peek(Top(t).toks, Top(t).pos) \notin {SemiColon, EOF})
             => /\ pc'[t] = "ret" /\ ~ret'[t].ok /\ ret'[t].stmts = <<>>
                /\ ret'[t].err = ParserError(<<"Expected ", "End of statement", ", found: ",
                                               Peek(Top(t).toks, Top(t).pos)>>)]_vars

\* parse_sql("USE c.s.t SELECT 1") has passed the USE, which gave nothing, and
\* has failed on the SELECT that follows it without a delimiter.
C12_Witness ==
    \E t \in Threads :
        /\ pc[t] = "ret" /\ ~ret[t].ok /\ Top(t).entry = "sql"
        /\ Top(t).toks = UseCST \o Select
        /\ Top(t).expecting /\ Top(t).stmts = <<>> /\ Top(t).pos = Len(UseCST) + 1
        /\ ret[t].err.msg = <<"Expected ", "End of statement", ", found: ", "SELECT">>

RECURSIVE parse_statements(_, _, _, _)
\* DFParser::parse_statements of a parser without a catalog (parse_sql), from
\* the cursor pos with the flag expecting and the statements stmts collected
\* so far: what it returns.  A USE gives nothing in such a parser, and a
\* location outside s3 is taken to exist.
parse_statements(toks, pos, expecting, stmts) ==
    LET start == SkipSemis(toks, pos)
        first == Peek(toks, start)
        u == UsePath(toks, start + 1)
        r == ParseStatement(toks, start, "", "", <<>>, TRUE)
    IN IF first = EOF THEN [ok |-> TRUE, stmts |-> stmts, err |-> NoError]
       ELSE IF (expecting /\ start = pos) \/ ~IsWord(first)
       THEN [ok |-> FALSE, stmts |-> <<>>, err |-> Expected("End of statement", first)]
       ELSE IF first = "USE"
       THEN IF u.ok THEN parse_statements(toks, u.pos, TRUE, stmts)
            ELSE [ok |-> FALSE, stmts |-> <<>>, err |-> Expected("Object identifier", u.catalog)]
       ELSE IF r.ok
       THEN parse_statements(toks, r.pos, TRUE, Append(stmts, [stmt |-> r.stmt, meta |-> r.meta]))
       ELSE [ok |-> FALSE, stmts |-> <<>>, err |-> r.err]

\* The text with one more statement delimiter after its first i tokens.
WithDelimiter(toks, i) == SubSeq(toks, 1, i) \o <<SemiColon>> \o SubSeq(toks, i + 1, Len(toks))
\* The places of a text where a delimiter stands between statements already,
\* or may stand: its start, its end, and either side of each delimiter.
DelimiterPlaces(toks) ==
    {0, Len(toks)} \cup {i \in 1..Len(toks) : toks[i] = SemiColon}
                  \cup {i - 1 : i \in {j \in 1..Len(toks) : toks[j] = SemiColon}}
\* Statements with their metas, without their cursor positions.
Items(stmts) == [i \in 1..Len(stmts) |-> [stmt |-> stmts[i].stmt, meta |-> stmts[i].meta]]
\* What a parser returned, without the cursor positions of its statements.
Returned(value) == [ok |-> value.ok, stmts |-> Items(value.stmts), err |-> value.err]
\* Whether it is an error, and the statements if not: the error's message
\* names the token the parser stopped at.
Outcome(value) == [ok |-> value.ok, stmts |-> Returned(value).stmts]

\* C13: empty statements change nothing: when parse_sql has returned, the
\* same text with one more statement delimiter before its first statement,
\* after its last or beside a delimiter between two statements returns the
\* same; and a text of delimiters only, like the empty text, returns the empty
\* sequence without error.
C13_ExtraDelimitersIgnored ==
    /\ \A t \in Threads :
          (pc[t] = "ret" /\ Len(stack[t]) = 1 /\ Top(t).entry = "sql")
          => \A i \in DelimiterPlaces(Top(t).toks) :
                 Outcome(parse_statements(WithDelimiter(Top(t).toks, i), 1, FALSE, <<>>))
                     = Outcome(ret[t])
    /\ \A n \in 0..3 :
          parse_statements([i \in 1..n |-> SemiColon], 1, FALSE, <<>>)
              = [ok |-> TRUE, stmts |-> <<>>, err |-> NoError]

\* What parse_sql returns is what parse_statements gives for its text.
DispatcherAgrees ==
    \A t \in Threads :
        (pc[t] = "ret" /\ Len(stack[t]) = 1 /\ Top(t).entry = "sql")
        => parse_statements(Top(t).toks, 1, FALSE, <<>>) = Returned(ret[t])

\* C14: a statement that does not start with USE goes to the statement
\* grammar whatever its first token is, a word or not: the dispatcher's step
\* on it gives what parse_statement gives from that token, its statement
\* appended to the parser's, its error returned, or its panic.
C14_EveryTokenToGrammar ==
    [][\A t \in Threads :
          (At(t, "loop") /\ ~Expecting(t) /\ First(t) \notin {EOF, "USE"} /\ Stepped(t))
          => \E answer \in BOOLEAN :
                LET f == Top(t)
                    r == ParseStatement(f.toks, Start(t), f.catalog, f.schema, f.filename,
                                        answer)
                IN /\ r.ok => /\ pc'[t] = "loop"
                              /\ Items(stack'[t][Len(stack'[t])].stmts)
                                   = Append(Items(f.stmts), [stmt |-> r.stmt, meta |-> r.meta])
                   /\ (~r.ok /\ ~r.panic) => (pc'[t] = "ret" /\ ret'[t].err = r.err)
                   /\ r.panic => pc'[t] = "done"]_vars

\* The AST node the generic grammar alone makes of the statement at pos:
\* Parser::parse_statement of the external grammar, on the statements of the
\* texts.
GenericGrammar(toks, pos) ==
    IF Peek(toks, pos) = "CREATE" THEN GenericCreate(toks, pos + 1).stmt
    ELSE IF Peek(toks, pos) = "SELECT" /\ Peek(toks, pos + 1) = Number
    THEN [kind |-> "Query", name |-> <<>>]
    ELSE GenericStatement(toks, pos, <<>>).stmt

\* The dispatcher is on a statement that starts with a word and is neither a
\* USE, nor a DESCRIBE, nor a CREATE EXTERNAL TABLE, and the grammar takes it.
Forwarded(t) ==
    /\ At(t, "loop") /\ ~Expecting(t) /\ IsWord(First(t))
    /\ First(t) \notin {"USE", "DESCRIBE"}
    /\ ~(First(t) = "CREATE" /\ Peek(Top(t).toks, Start(t) + 1) = "EXTERNAL")
    /\ Stepped(t) /\ pc'[t] = "loop"
\* The statement the step has appended to the innermost parser's.
Appended(t) == stack'[t][Len(stack'[t])].stmts[Len(stack'[t][Len(stack'[t])].stmts)].stmt

AppendedItem(t) == stack'[t][Len(stack'[t])].stmts[Len(stack'[t][Len(stack'[t])].stmts)]

\* C16: the meta of a DESCRIBE or CREATE target parsed in the scope of
\* catalog C and schema S has C and S where the name leaves them out: n gives
\* (C, S, n), a.b gives (C, a, b) and a.b.c gives (a, b, c).
C16_ScopeDefaults ==
    [][\A t \in Threads :
          (/\ At(t, "loop") /\ ~Expecting(t) /\ First(t) \in {"DESCRIBE", "CREATE"}
           /\ Top(t).catalog # ""
           /\ Stepped(t) /\ pc'[t] = "loop"
           /\ AppendedItem(t).stmt.kind
                \in {"DescribeTable", "CreateTable", "CreateExternalTable"})
          => LET name == AppendedItem(t).stmt.name
                 meta == AppendedItem(t).meta
             IN /\ Len(name) = 1
                   => <<meta.catalog, meta.schema, meta.table>>
                        = <<Top(t).catalog, Top(t).schema, name[1]>>
                /\ Len(name) = 2
                   => <<meta.catalog, meta.schema, meta.table>>
                        = <<Top(t).catalog, name[1], name[2]>>
                /\ Len(name) = 3
                   => <<meta.catalog, meta.schema, meta.table>> = name]_vars

\* Where the target name of the DESCRIBE or CREATE statement at pos starts.
TargetStart(toks, pos) ==
    IF Peek(toks, pos) = "DESCRIBE" THEN pos + 1
    ELSE IF Peek(toks, pos + 1) # "EXTERNAL" THEN pos + 2
    ELSE AfterKeywords(toks, pos + 3, <<"IF", "NOT", "EXISTS">>)
\* The parts of that name; none if no name is there.
TargetParts(toks, pos) ==
    IF ObjectNameEnd(toks, TargetStart(toks, pos)) = 0 THEN <<>>
    ELSE ObjectNameParts(toks, TargetStart(toks, pos),
                         ObjectNameEnd(toks, TargetStart(toks, pos)))
\* The dispatcher takes a step on a DESCRIBE or CREATE statement whose target
\* name has four parts or more.
LongName(t) ==
    /\ At(t, "loop") /\ ~Expecting(t) /\ First(t) \in {"DESCRIBE", "CREATE"}
    /\ Len(TargetParts(Top(t).toks, Start(t))) >= 4
    /\ Stepped(t)
Fatal(t) == pc'[t] = "done" /\ result'[t].kind = "panic" /\ stack'[t] = <<>>

\* C17, as stated: a DESCRIBE, a CREATE or a CREATE EXTERNAL TABLE whose
\* target name has four parts or more is fatal: no statement is returned and
\* no error value.
C17_LongNameIsFatal == [][\A t \in Threads : LongName(t) => Fatal(t)]_vars

\* C17, amended: with a target name of four parts or more, a DESCRIBE and a
\* CREATE TABLE are fatal; a CREATE EXTERNAL TABLE returns the error of its
\* clauses or of its missing location if there is one, and is fatal otherwise,
\* after its key has gone into LOCATIONS; any other CREATE returns its
\* statement, with the meta of no name.
C17_LongTableNameIsFatal ==
    [][\A t \in Threads :
          LongName(t)
          => LET toks == Top(t).toks
                 pos == Start(t)
             IN IF First(t) = "DESCRIBE" \/ Peek(toks, pos + 1) = "TABLE" THEN Fatal(t)
                ELSE IF Peek(toks, pos + 1) = "EXTERNAL"
                THEN LET create == ExternalTableClauses(toks, pos + 2).create
                     IN \/ pc'[t] = "ret" /\ ~ret'[t].ok /\ LOCATIONS' = LOCATIONS
                        \/ /\ Fatal(t)
                           /\ LocationKey(create.location, create.file_type) \in LOCATIONS'
                           /\ \/ IsS3(create.location)
                              \/ exists'[<<Top(t).filename, create.location>>]
                ELSE /\ pc'[t] = "loop"
                     /\ AppendedItem(t).meta.table = "N.N"]_vars

\* parse_sql of CREATE EXTERNAL TABLE c.d.s.t STORED AS csv LOCATION
\* 'foo.csv' has found the location, has put its key into LOCATIONS and has
\* panicked on the name.
C17_Witness ==
    \E t \in Threads :
        /\ pc[t] = "done" /\ result[t].kind = "panic"
        /\ LOCATIONS = {<<"foo", ".csv", "::", "csv">>}
        /\ exists = (<<<<>>, <<"foo", ".csv">>>> :> TRUE)

InOrder(choice) == \A i, j \in 1..Len(choice) : i < j => choice[i] < choice[j]
\* The first clause of the choice that stands out of order or again.
FirstOutOfOrder(choice) ==
    CHOOSE j \in 2..Len(choice) :
        /\ choice[j] <= choice[j - 1]
        /\ InOrder(SubSeq(choice, 1, j - 1))
\* The text CREATE EXTERNAL TABLE t STORED AS csv <clauses> LOCATION 's3://foo'
ClauseText(choice) ==
    CreateExternal(FALSE, <<"t">>, <<>>, "csv", ClausesOf(choice), "'s3://foo'")
\* The CreateExternalTable of that text, for clauses in order.
ClauseStatement(choice) ==
    LET has(i) == \E j \in 1..Len(choice) : choice[j] = i
    IN [kind |-> "CreateExternalTable", name |-> <<"t">>, columns |-> <<>>,
        file_type |-> "CSV",
        has_header |-> has(1),
        delimiter |-> IF has(2) THEN "|" ELSE ",",
        location |-> <<"s3://", "foo">>,
        table_partition_cols |-> IF has(4) THEN <<"p">> ELSE <<>>,
        if_not_exists |-> FALSE,
        file_compression_type |-> IF has(3) THEN "GZIP" ELSE UNCOMPRESSED,
        options |-> IF has(5) THEN {<<<<"k">>, <<"v">>>>} ELSE {}]

\* C19: the optional clauses of CREATE EXTERNAL TABLE are taken in the order
\* WITH HEADER ROW, DELIMITER, COMPRESSION TYPE, PARTITIONED BY, OPTIONS, each
\* once at most, between STORED AS <format> and LOCATION.  With the clauses in
\* that order the statement is parsed, with the fields the clauses give; with
\* a clause out of order or twice no statement is produced and the error is
\* "Expected LOCATION, found: <the first word of that clause>"; a clause
\* before STORED AS or after the location gives an error too.
C19_ClauseOrder ==
    \A t \in Threads :
        (Len(stack[t]) = 1 /\ pc[t] \in {"loop", "ret"})
        => /\ \A choice \in ClauseChoices :
                 Top(t).toks = ClauseText(choice)
                 => IF InOrder(choice)
                    THEN /\ pc[t] = "ret" => ret[t].ok
                         /\ Top(t).stmts # <<>>
                            => /\ Len(Top(t).stmts) = 1
                               /\ Top(t).stmts[1].stmt = ClauseStatement(choice)
                    ELSE /\ Top(t).stmts = <<>>
                         /\ pc[t] = "ret"
                            => /\ ~ret[t].ok /\ ret[t].stmts = <<>>
                               /\ ret[t].err
                                    = Expected("LOCATION",
                                               ClauseMenu[choice[FirstOutOfOrder(choice)]][1])
           /\ (/\ Top(t).toks \in ExternalTexts
               /\ \E i \in 1..Len(Top(t).toks) :
                      /\ Top(t).toks[i] = "WITH"
                      /\ \/ \A j \in 1..i : Top(t).toks[j] # "STORED"
                         \/ \E j \in 1..i : Top(t).toks[j] = "LOCATION"
               /\ pc[t] = "ret")
              => ~ret[t].ok /\ ret[t].stmts = <<>>

\* The dispatcher has returned "Expected LOCATION, found: WITH" for CREATE
\* EXTERNAL TABLE t STORED AS csv DELIMITER '|' WITH HEADER ROW LOCATION
\* 's3://foo', and has no statement.
C19_Witness ==
    \E t \in Threads :
        /\ pc[t] = "ret" /\ Len(stack[t]) = 1
        /\ Top(t).toks = ClauseText(<<2, 1>>)
        /\ Top(t).stmts = <<>>
        /\ ~ret[t].ok
        /\ ret[t].err.msg = <<"Expected ", "LOCATION", ", found: ", "WITH">>

\* The columns a column list of the texts stands for.
ColumnsOf(columns) ==
    CASE columns = <<LParen, "c", "int", RParen>> -> <<[name |-> "c", data_type |-> "int"]>>
      [] columns = <<LParen, "c", "int", Comma, "d", "int", Comma, RParen>>
           -> <<[name |-> "c", data_type |-> "int"], [name |-> "d", data_type |-> "int"]>>
      [] OTHER -> <<>>
\* The statement a plain CREATE EXTERNAL TABLE t ... STORED AS csv LOCATION
\* ... is to give: the defaults for all that it does not say.
PlainStatement(if_not_exists, columns, location) ==
    [kind |-> "CreateExternalTable", name |-> <<"t">>, columns |-> ColumnsOf(columns),
     file_type |-> "CSV", has_header |-> FALSE, delimiter |-> ",",
     location |-> StringValue(location), table_partition_cols |-> <<>>,
     if_not_exists |-> if_not_exists, file_compression_type |-> UNCOMPRESSED,
     options |-> {}]
\* The dispatcher of a caller's parser has returned for the plain CREATE
\* EXTERNAL TABLE t of these choices.
PlainReturned(t, if_not_exists, columns, location) ==
    /\ pc[t] = "ret" /\ Len(stack[t]) = 1
    /\ Top(t).toks = CreateExternal(if_not_exists, <<"t">>, columns, "csv", <<>>, location)
\* It has returned the one statement, with the defaults.
PlainParsed(t, if_not_exists, columns, location) ==
    /\ ret[t].ok /\ Len(ret[t].stmts) = 1
    /\ ret[t].stmts[1].stmt = PlainStatement(if_not_exists, columns, location)

ReturnedFor(t, text) == pc[t] = "ret" /\ Len(stack[t]) = 1 /\ Top(t).toks = text
\* It has returned one statement, and no statement but an error.
OneStatement(t) == ret[t].ok /\ Len(ret[t].stmts) = 1
NoStatement(t) == ~ret[t].ok /\ ret[t].stmts = <<>>

\* The words of the format menu, each with its upper-case form.
UpperCaseForm(w) ==
    CASE w = "csv" -> "CSV"
      [] w = "parqueT" -> "PARQUET"
      [] w = "x" -> "X"
      [] w = "XZ" -> "XZ"

\* C21: the word after STORED AS is taken in any letter case and the
\* file_type of the statement is its upper-case form, for the name of a known
\* format as for any other word; a token that is no word in that place makes
\* the parse fail.
C21_FormatUppercase ==
    \A t \in Threads :
        \A f \in FormatMenu :
            ReturnedFor(t, Stored(f, <<>>))
            => IF f \in {"csv", "parqueT", "x", "XZ"}
               THEN /\ OneStatement(t)
                    /\ ret[t].stmts[1].stmt.kind = "CreateExternalTable"
                    /\ ret[t].stmts[1].stmt.file_type = UpperCaseForm(f)
               ELSE NoStatement(t)

\* The dispatcher has returned the statement of CREATE EXTERNAL TABLE t STORED
\* AS parqueT LOCATION 's3://foo', with the file_type PARQUET; and the key of
\* the location says parquet.
C21_Witness ==
    \E t \in Threads :
        /\ ReturnedFor(t, Stored("parqueT", <<>>))
        /\ OneStatement(t)
        /\ ret[t].stmts[1].stmt.file_type = "PARQUET"
        /\ LOCATIONS = {<<"s3://", "foo", "::", "parquet">>}

\* The characters of a literal of the delimiter menu: its pieces.
Characters(literal) == Len(StringValue(literal))

\* C22: without a DELIMITER clause the delimiter is ','; DELIMITER with a
\* literal of exactly one character gives that character; with a literal of
\* no character or of more than one the parse fails with the error of the
\* length and gives no statement.
C22_SingleCharacterDelimiter ==
    \A t \in Threads :
        /\ ReturnedFor(t, Stored("csv", <<>>))
           => OneStatement(t) /\ ret[t].stmts[1].stmt.delimiter = ","
        /\ \A d \in DelimiterMenu \cap Strings :
               ReturnedFor(t, Stored("csv", <<"DELIMITER", d>>))
               => IF Characters(d) = 1
                  THEN /\ OneStatement(t)
                       /\ ret[t].stmts[1].stmt.delimiter = StringValue(d)[1]
                  ELSE /\ NoStatement(t)
                       /\ ret[t].err = TokenizerError(<<"Delimiter must be a single char">>)

\* C23: WITH HEADER ROW, in any letter case, makes has_header true, and
\* without it has_header is false; of an opener of several keywords that is
\* there only in part (WITH HEADER, PARTITIONED without BY, COMPRESSION
\* without TYPE) no token is consumed, and the parse fails with "Expected
\* LOCATION, found: <the first keyword of the part>".
C23_HeaderRow ==
    \A t \in Threads :
        /\ ReturnedFor(t, Stored("csv", <<>>))
           => OneStatement(t) /\ ~ret[t].stmts[1].stmt.has_header
        /\ \A h \in HeaderMenu :
               ReturnedFor(t, Stored("csv", h))
               => OneStatement(t) /\ ret[t].stmts[1].stmt.has_header
        /\ \A h \in PartialMenu :
               ReturnedFor(t, Stored("csv", h))
               => /\ NoStatement(t)
                  /\ ret[t].err = ParserError(<<"Expected ", "LOCATION", ", found: ", h[1]>>)

\* The dispatcher has returned the statement of CREATE EXTERNAL TABLE t STORED
\* AS csv with header row LOCATION 's3://foo', and has_header is true.
C23_Witness ==
    \E t \in Threads :
        /\ ReturnedFor(t, Stored("csv", <<"with", "header", "row">>))
        /\ OneStatement(t)
        /\ ret[t].stmts[1].stmt.has_header
        /\ ret[t].stmts[1].stmt.delimiter = ","

\* C24: COMPRESSION TYPE <tag> gives the value of the enumeration that the
\* tag names, for each of GZIP, BZIP2, XZ and UNCOMPRESSED; without the clause
\* the value is UNCOMPRESSED; a tag that names none (ZZZ) makes the parse fail
\* with a message that contains "Unsupported file compression type <tag>".
C24_CompressionType ==
    \A t \in Threads :
        /\ ReturnedFor(t, Stored("csv", <<>>))
           => /\ OneStatement(t)
              /\ ret[t].stmts[1].stmt.file_compression_type = "UNCOMPRESSED"
        /\ \A c \in CompressionMenu \cap Words :
               ReturnedFor(t, Stored("csv", <<"COMPRESSION", "TYPE", c>>))
               => IF c \in {"GZIP", "BZIP2", "XZ", "UNCOMPRESSED"}
                  THEN /\ OneStatement(t)
                       /\ ret[t].stmts[1].stmt.file_compression_type = c
                  ELSE /\ NoStatement(t)
                       /\ ret[t].err.msg[1] = "Unsupported file compression type "
                       /\ c = "ZZZ" => ret[t].err.msg[2] = "ZZZ"

\* The dispatcher has returned "Unsupported file compression type ZZZ" and no
\* statement for CREATE EXTERNAL TABLE t STORED AS csv COMPRESSION TYPE ZZZ
\* LOCATION 's3://foo', and LOCATIONS has no key.
C24_Witness ==
    \E t \in Threads :
        /\ ReturnedFor(t, Stored("csv", <<"COMPRESSION", "TYPE", "ZZZ">>))
        /\ NoStatement(t)
        /\ ret[t].err = ParserError(<<"Unsupported file compression type ", "ZZZ">>)
        /\ LOCATIONS = {}

\* CREATE EXTERNAL TABLE t STORED AS csv PARTITIONED BY <list> LOCATION ..
Partitioned(list) == Stored("csv", <<"PARTITIONED", "BY">> \o list)
\* It has returned no statement but the error that this was expected where
\* that token was found.
Refused(t, expected, found) ==
    NoStatement(t) /\ ret[t].err = ParserError(<<"Expected ", expected, ", found: ", found>>)
\* It has returned one statement with these partition columns.
PartitionedBy(t, names) ==
    OneStatement(t) /\ ret[t].stmts[1].stmt.table_partition_cols = names

\* C25: PARTITIONED BY (i1, ..., in) of bare identifiers gives the partition
\* columns i1, ..., in in their order, also with a comma before the closing
\* parenthesis; an identifier followed by a type, or by anything but ',' or
\* ')', fails with "Expected ',' or ')' after partition definition"; a token
\* that is no word where a name is expected fails.
C25_PartitionColumns ==
    \A t \in Threads :
        /\ ReturnedFor(t, Partitioned(<<LParen, "p", RParen>>)) => PartitionedBy(t, <<"p">>)
        /\ ReturnedFor(t, Partitioned(<<LParen, "p", Comma, "q", RParen>>))
           => PartitionedBy(t, <<"p", "q">>)
        /\ ReturnedFor(t, Partitioned(<<LParen, "q", Comma, "p", Comma, RParen>>))
           => PartitionedBy(t, <<"q", "p">>)
        /\ ReturnedFor(t, Partitioned(<<LParen, "p", "int", RParen>>))
           => Refused(t, "',' or ')' after partition definition", "int")
        /\ ReturnedFor(t, Partitioned(<<LParen, "p", "q", RParen>>))
           => Refused(t, "',' or ')' after partition definition", "q")
        /\ ReturnedFor(t, Partitioned(<<LParen, "p", Comma, "q", "'k'", RParen>>))
           => Refused(t, "',' or ')' after partition definition", "'k'")
        /\ ReturnedFor(t, Partitioned(<<LParen, "'k'", RParen>>)) => NoStatement(t)
        /\ ReturnedFor(t, Partitioned(<<LParen, "p", Comma, Number, RParen>>)) => NoStatement(t)
        /\ ReturnedFor(t, Partitioned(<<LParen, "p", Comma, Comma, "q", RParen>>))
           => NoStatement(t)

\* The dispatcher has returned the statement of CREATE EXTERNAL TABLE t STORED
\* AS csv PARTITIONED BY (q, p,) LOCATION 's3://foo', with the partition
\* columns q and p.
C25_Witness ==
    \E t \in Threads :
        /\ ReturnedFor(t, Partitioned(<<LParen, "q", Comma, "p", Comma, RParen>>))
        /\ OneStatement(t)
        /\ ret[t].stmts[1].stmt.table_partition_cols = <<"q", "p">>
        /\ ret[t].stmts[1].stmt.columns = <<>>

\* CREATE EXTERNAL TABLE t STORED AS x OPTIONS <list> LOCATION 's3://foo'
WithOptions(list) == Stored("x", <<"OPTIONS">> \o list)
\* It has returned one statement with this mapping of keys to values.
OptionsAre(t, options) == OneStatement(t) /\ ret[t].stmts[1].stmt.options = options
\* The entry of a key and its value, each the sequence of its characters.
Entry(key, value) == <<<<key>>, <<value>>>>

\* C26: OPTIONS (k1 v1, ..., kn vn) gives the mapping of each key to its
\* value, also with a comma before the closing parenthesis, and a key that
\* is given again keeps its last value; an entry of a key without a value
\* makes the parse fail with "Expected literal string, found: )" and no
\* statement is given.
C26_Options ==
    \A t \in Threads :
        /\ ReturnedFor(t, WithOptions(<<LParen, "'k'", "'v'", RParen>>))
           => OptionsAre(t, {Entry("k", "v")})
        /\ ReturnedFor(t, WithOptions(<<LParen, "'k'", "'v'", Comma, "x", "'w'", RParen>>))
           => OptionsAre(t, {Entry("k", "v"), Entry("x", "w")})
        /\ ReturnedFor(t, WithOptions(<<LParen, "k", "v", Comma, RParen>>))
           => OptionsAre(t, {Entry("k", "v")})
        /\ ReturnedFor(t, WithOptions(<<LParen, "'k'", "'v'", Comma, "k", "'w'", RParen>>))
           => OptionsAre(t, {Entry("k", "w")})
        /\ ReturnedFor(t, WithOptions(<<LParen, "'k'", "'v'", Comma, "x", RParen>>))
           => Refused(t, "literal string", RParen)
        /\ ReturnedFor(t, WithOptions(<<LParen, "k", RParen>>))
           => Refused(t, "literal string", RParen)
        /\ ReturnedFor(t, WithOptions(<<LParen, "'k'", "'v'", "x", "'w'", RParen>>))
           => NoStatement(t)

\* The dispatcher has returned the statement of CREATE EXTERNAL TABLE t STORED
\* AS x OPTIONS ('k' 'v', k 'w') LOCATION 's3://foo': the one key k, with its
\* last value w.
C26_Witness ==
    \E t \in Threads :
        /\ ReturnedFor(t, WithOptions(<<LParen, "'k'", "'v'", Comma, "k", "'w'", RParen>>))
        /\ OneStatement(t)
        /\ ret[t].stmts[1].stmt.options = {<<<<"k">>, <<"w">>>>}
        /\ ret[t].stmts[1].stmt.file_type = "X"

RECURSIVE LocationAt(_, _)
\* The value of the literal after the first LOCATION at or after pos.
LocationAt(toks, pos) ==
    IF pos > Len(toks) THEN <<>>
    ELSE IF toks[pos] = "LOCATION" THEN StringValue(Peek(toks, pos + 1))
    ELSE LocationAt(toks, pos + 1)

\* The dispatcher takes a step on a CREATE EXTERNAL TABLE.
OnExternalTable(t) ==
    /\ At(t, "loop") /\ ~Expecting(t) /\ First(t) = "CREATE"
    /\ Peek(Top(t).toks, Start(t) + 1) = "EXTERNAL"
    /\ Stepped(t)
\* The step gives a statement.
Succeeds(t) ==
    /\ pc'[t] = "loop" /\ Len(stack'[t]) = Len(stack[t])
    /\ Len(stack'[t][Len(stack'[t])].stmts) = Len(Top(t).stmts) + 1
\* The location is remote, or exists_full_path has found it from the
\* filename of the scope.
Remote(location) == location # <<>> /\ location[1] = "s3://"
FoundFrom(filename, location) ==
    /\ <<filename, location>> \in DOMAIN exists'
    /\ exists'[<<filename, location>>]

ExternalTables(stmts) ==
    SelectSeq([i \in 1..Len(stmts) |-> stmts[i].stmt],
              LAMBDA stmt : stmt.kind = "CreateExternalTable")
\* The last of them for a table name.
LastFor(creates, name) ==
    creates[CHOOSE i \in 1..Len(creates) :
                /\ creates[i].name = name
                /\ \A j \in (i + 1)..Len(creates) : creates[j].name # name]

\* C28: after a sequence of successful CREATE EXTERNAL TABLE statements the
\* location registry has exactly one entry for each table name, the location
\* of the last statement for that name: a later statement for a table takes
\* the place of the earlier entry and adds no second one.
C28_OneEntryPerTable ==
    \A t \in Threads :
        (pc[t] = "ret" /\ Len(stack[t]) = 1 /\ ret[t].ok /\ calls = 1)
        => LET creates == ExternalTables(ret[t].stmts)
               names == {creates[i].name : i \in 1..Len(creates)}
               last == {LastFor(creates, name) : name \in names}
           IN /\ Cardinality(LOCATIONS) = Cardinality(names)
              /\ \A entry \in LOCATIONS :
                     \E create \in last :
                         SubSeq(entry, 1, Len(create.location))
                             = [i \in 1..Len(create.location) |->
                                    to_ascii_lowercase(create.location[i])]

\* What the text of a CREATE EXTERNAL TABLE that starts at pos says: whether
\* IF NOT EXISTS is written, the tokens of the name, the word after AS.
WrittenIfNotExists(toks, pos) ==
    SubSeq(toks, pos + 3, pos + 5) = <<"IF", "NOT", "EXISTS">>
WrittenName(toks, pos) ==
    LET from == IF WrittenIfNotExists(toks, pos) THEN pos + 6 ELSE pos + 3
        to == CHOOSE i \in from..Len(toks) :
                  /\ toks[i + 1] \notin Idents \cup {Period}
                  /\ \A j \in from..(i - 1) : toks[j + 1] \in Idents \cup {Period}
    IN SubSeq(toks, from, to)
RECURSIVE WrittenFormat(_, _)
WrittenFormat(toks, pos) ==
    IF toks[pos] = "AS" THEN toks[pos + 1] ELSE WrittenFormat(toks, pos + 1)
\* The statement with every field that the serialization is not to depend on
\* at its default.
WithoutOtherFields(create) ==
    [create EXCEPT !.columns = <<>>, !.has_header = FALSE, !.delimiter = ",",
                   !.table_partition_cols = <<>>, !.file_compression_type = "UNCOMPRESSED",
                   !.options = {}]

\* C29: for a CREATE EXTERNAL TABLE that parses, the serialization of the
\* parsed statement has the table name as written, the format in upper case
\* and the location, and IF NOT EXISTS if and only if it was written; and it
\* depends on no other field of the statement.
C29_DisplayPreserves ==
    \A t \in Threads :
        (pc[t] = "ret" /\ Len(stack[t]) = 1 /\ ret[t].ok)
        => \A i \in 1..Len(ret[t].stmts) :
               LET item == ret[t].stmts[i]
                   toks == Top(t).toks
               IN item.stmt.kind = "CreateExternalTable"
                  => /\ fmt(item.stmt)
                          = <<"CREATE EXTERNAL TABLE ">>
                              \o (IF WrittenIfNotExists(toks, item.at)
                                  THEN <<"IF NOT EXISTS ">> ELSE <<>>)
                              \o WrittenName(toks, item.at)
                              \o <<" ", "STORED AS ",
                                    UpperCaseForm(WrittenFormat(toks, item.at)), " ",
                                    "LOCATION ">>
                              \o LocationAt(toks, item.at) \o <<" ">>
                     /\ fmt(item.stmt) = fmt(WithoutOtherFields(item.stmt))

\* The dispatcher has returned the statement of CREATE EXTERNAL TABLE IF NOT
\* EXISTS t (c int) STORED AS csv LOCATION 's3://foo', and its serialization
\* is CREATE EXTERNAL TABLE IF NOT EXISTS t STORED AS CSV LOCATION s3://foo.
C29_Witness ==
    \E t \in Threads :
        /\ ReturnedFor(t, CreateExternal(TRUE, <<"t">>, <<LParen, "c", "int", RParen>>, "csv",
                                         <<>>, "'s3://foo'"))
        /\ OneStatement(t)
        /\ ret[t].stmts[1].stmt.columns # <<>>
        /\ fmt(ret[t].stmts[1].stmt)
               = <<"CREATE EXTERNAL TABLE ", "IF NOT EXISTS ", "t", " ", "STORED AS ", "CSV", " ",
                   "LOCATION ", "s3://", "foo", " ">>

\* A parser's scope, and the parsers of a session that are there before and
\* after a step.
ScopeOf(frame) == <<frame.catalog, frame.schema, frame.table, frame.filename>>
Staying(t) ==
    {i \in 1..Len(stack[t]) : i <= Len(stack'[t])}
\* A USE opens its file (a parser more), a parser appends a statement it
\* parsed itself, a nested file's statements come back to the USE.
Opens(t) == stack[t] # <<>> /\ Len(stack'[t]) = Len(stack[t]) + 1
AppendsOwn(t) ==
    /\ stack[t] # <<>> /\ Len(stack'[t]) = Len(stack[t])
    /\ Len(stack'[t][Len(stack[t])].stmts) = Len(Top(t).stmts) + 1
ComesBack(t) == Len(stack[t]) > 1 /\ Len(stack'[t]) = Len(stack[t]) - 1

\* C30: no step changes the catalog, schema, table or filename of a parser
\* that stays; a USE that opens its file adds a parser of its own with the
\* file's name and the USE's catalog and schema, and no statements yet; a
\* statement that a parser parses itself, the preamble's included, carries
\* that parser's filename; and the statements of a nested file come back to
\* the outer parser as they are, after those it had.
C30_ScopesNotShared ==
    [][\A t \in Threads :
          /\ \A i \in Staying(t) : ScopeOf(stack'[t][i]) = ScopeOf(stack[t][i])
          /\ Opens(t)
             => LET nested == stack'[t][Len(stack'[t])]
                IN /\ nested.catalog = Top(t).use.catalog
                   /\ nested.schema = Top(t).use.schema
                   /\ nested.filename
                          = (IF nested.table # ""
                             THEN TableFilename(nested.catalog, nested.schema, nested.table)
                             ELSE SchemaFilename(nested.catalog, nested.schema))
                   /\ nested.stmts = <<>>
                   /\ SubSeq(stack'[t], 1, Len(stack[t])) = stack[t]
          /\ AppendsOwn(t) => AppendedItem(t).meta.filename = Top(t).filename
          /\ ComesBack(t)
             => stack'[t][Len(stack'[t])].stmts
                    = stack[t][Len(stack'[t])].stmts \o ret[t].stmts]_vars

\* The parser of top.sql has met USE c.s.t and then a query: it holds the
\* preamble's statements and the nested file's under the name c/s/t.sql, and
\* after them its own under the name top.sql.
C30_Witness ==
    \E t \in Threads :
        /\ pc[t] = "loop" /\ Len(stack[t]) = 1
        /\ Top(t).filename = <<"top", ".sql">>
        /\ Top(t).toks = UseCST \o <<SemiColon>> \o Select
        /\ Len(Top(t).stmts) >= 3
        /\ Top(t).stmts[1].preamble
        /\ \A i \in 1..(Len(Top(t).stmts) - 1) :
               Top(t).stmts[i].meta.filename = TableFilename("c", "s", "t")
        /\ Top(t).stmts[Len(Top(t).stmts)].meta.filename = <<"top", ".sql">>

\* The index after the identifier path that starts at pos: one, two or three
\* identifiers with periods between them.
AfterPath(toks, pos) ==
    IF Peek(toks, pos + 1) = Period /\ IsWord(Peek(toks, pos + 2))
    THEN IF Peek(toks, pos + 3) = Period /\ IsWord(Peek(toks, pos + 4))
         THEN pos + 5 ELSE pos + 3
    ELSE pos + 1

\* C32: a USE that moves the cursor of its parser leaves it on the token that
\* follows its identifier path, for a path of one, two or three components.
C32_UseConsumesItsPath ==
    [][\A t \in Threads :
          (/\ AtUse(t) /\ Path(t).ok
           /\ pc'[t] \in {"loop", "use_files"}
           /\ Len(stack'[t]) = Len(stack[t]))
          => Peek(Top(t).toks, stack'[t][Len(stack[t])].pos)
                 = Peek(Top(t).toks, AfterPath(Top(t).toks, Start(t) + 1))]_vars

\* The USE of the innermost parser has failed after it resolved its file: the
\* parser returns an error and still holds what the USE resolved and created.
UseFailed(t) == pc[t] = "ret" /\ ~ret[t].ok /\ Top(t).use.filename # <<>>

\* C33: when a USE has failed after it resolved its file, the file is not in
\* the visited files, and the catalog and the schema that this USE marked are
\* not in the visited catalogs and schemas.
C33_FailedUseLeavesRegistries ==
    \A t \in Threads :
        UseFailed(t)
        => LET u == Top(t).use
           IN /\ u.filename \notin VISITED_FILES
              /\ u.created_catalog # <<>> => u.catalog \notin VISITED_CATALOGS
              /\ u.created_schema # <<>> => SchemaId(u.catalog, u.schema) \notin VISITED_SCHEMAS

\* The error is a parser error whose message starts with 'filename': .
Prefixed(err, filename) ==
    /\ err.type = "ParserError"
    /\ Len(err.msg) > Len(filename) + 2
    /\ SubSeq(err.msg, 1, Len(filename) + 2) = <<"'">> \o filename \o <<"': ">>

\* C38: every error that parse_sql_with_scope returns to its caller, from the
\* tokenizer of the text or from the dispatcher, is a parser error prefixed
\* with the filename of the scope.
C38_ErrorsCarryFilename ==
    [][\A t \in Threads :
          /\ (ScopeReturn(t) /\ result'[t].kind = "err")
             => Prefixed(result'[t].err, Top(t).filename)
          /\ (ParseSqlWithScope(t) /\ result'[t].kind = "err")
             => \E sc \in Scopes : Prefixed(result'[t].err, sc.filename)]_vars

\* The innermost parser is on a query, and the name of its file without the
\* directories and the .sql suffix.
OnQuery(t) == At(t, "loop") /\ ~Expecting(t) /\ First(t) = "SELECT"
Stem(filename) == filename[Len(filename) - 1]

\* C34: a query that a parser appends is a CREATE TABLE named by the scope's
\* catalog, its schema and the stem of its filename when the scope has a
\* filename, whatever the scope's table is, and a plain Query when it has none.
C34_QueryBecomesCreateTable ==
    [][\A t \in Threads :
          (OnQuery(t) /\ AppendsOwn(t))
          => IF Top(t).filename # <<>>
             THEN /\ AppendedItem(t).stmt.kind = "CreateTable"
                  /\ AppendedItem(t).stmt.name
                         = <<Top(t).catalog, Top(t).schema, Stem(Top(t).filename)>>
             ELSE AppendedItem(t).stmt.kind = "Query"]_vars

\* The parser of c/s.sql, reached by a USE from a scope whose table is t and
\* whose file is top.sql, has appended two queries of its file, both as
\* CREATE TABLE c.s.s.
C34_Witness ==
    \E t \in Threads :
        /\ Len(stack[t]) = 2
        /\ stack[t][1].table = "t" /\ stack[t][1].filename = <<"top", ".sql">>
        /\ Top(t).filename = SchemaFilename("c", "s")
        /\ \E i, j \in 1..Len(Top(t).stmts) :
               /\ i < j
               /\ ~Top(t).stmts[i].preamble /\ ~Top(t).stmts[j].preamble
               /\ Top(t).stmts[i].stmt = [kind |-> "CreateTable", name |-> <<"c", "s", "s">>]
               /\ Top(t).stmts[j].stmt = Top(t).stmts[i].stmt
               /\ Top(t).stmts[i].at # Top(t).stmts[j].at

\* C35: the catalog of every visited schema is a visited catalog, whatever
\* steps of USE statements and of visit calls have been taken so far.
C35_SchemaHasItsCatalog ==
    \A id \in VISITED_SCHEMAS : id[1] \in VISITED_CATALOGS

\* A visit of the schema c.q is between its locks while the USE c.s of another
\* session has marked its schema: both schemas of c are visited, or about to be.
C35_Witness ==
    \E t, u \in Threads :
        /\ pc[t] = "visit_schemas" /\ Top(t).schema = "q"
        /\ pc[u] = "use_parse" /\ Top(u).use.created_schema # <<>>
        /\ SchemaId("c", "s") \in VISITED_SCHEMAS
        /\ VISITED_CATALOGS = {"c"}

\* The item is the preamble's CREATE DATABASE / CREATE SCHEMA statement.
IsCreateDatabase(item, catalog) ==
    item.preamble /\ item.stmt.kind = "CreateDatabase" /\ item.stmt.name = <<catalog>>
IsCreateSchema(item) ==
    item.preamble /\ item.stmt.kind = "CreateSchema" /\ Len(item.stmt.name) = 2

\* C36: when a call has returned a preamble's CREATE SCHEMA c.s, a preamble
\* with CREATE DATABASE c has been prepared in the process before, and the
\* statements returned with it have CREATE DATABASE c before it if at all.
C36_DatabaseBeforeSchema ==
    \A t \in Threads :
        (pc[t] = "done" /\ result[t].kind = "ok")
        => \A i \in 1..Len(result[t].stmts) :
               LET item == result[t].stmts[i]
               IN IsCreateSchema(item)
                  => /\ Count(created, <<item.stmt.name[1]>>) > 0
                     /\ \A j \in 1..Len(result[t].stmts) :
                            IsCreateDatabase(result[t].stmts[j], item.stmt.name[1]) => j < i

\* The session is in a call of visit before or after the step, and the
\* arguments of that call.
InVisit(t) ==
    pc[t] \in {"visit_catalogs", "visit_schemas"} \/ pc'[t] \in {"visit_catalogs", "visit_schemas"}
VisitArguments(t) ==
    IF pc[t] \in {"visit_catalogs", "visit_schemas"} THEN stack[t][1] ELSE stack'[t][1]
Moves(t) == pc'[t] # pc[t]

\* C37: a step of visit adds nothing to the registries but its file, its
\* catalog and its schema id, and leaves the location registry, the disk and
\* the other sessions alone; when visit returns, the three are marked. A USE
\* that finds its file marked goes on with no statement added; one that finds
\* its catalog and its schema marked prepares no preamble, and the parser it
\* opens then has the file's own text and no preamble statement.
C37_VisitMarksAll ==
    [][\A t \in Threads :
          /\ InVisit(t)
             => LET v == VisitArguments(t)
                IN /\ VISITED_FILES' \subseteq VISITED_FILES \cup {v.filename}
                   /\ VISITED_CATALOGS' \subseteq VISITED_CATALOGS \cup {v.catalog}
                   /\ VISITED_SCHEMAS' \subseteq VISITED_SCHEMAS \cup {SchemaId(v.catalog, v.schema)}
                   /\ VISITED_FILES \subseteq VISITED_FILES'
                   /\ VISITED_CATALOGS \subseteq VISITED_CATALOGS'
                   /\ VISITED_SCHEMAS \subseteq VISITED_SCHEMAS'
                   /\ LOCATIONS' = LOCATIONS /\ disk' = disk /\ alive' = alive
                   /\ \A u \in Threads \ {t} : pc'[u] = pc[u] /\ stack'[u] = stack[u]
          /\ (pc[t] = "visit_schemas" /\ pc'[t] = "done")
             => /\ Top(t).filename \in VISITED_FILES'
                /\ Top(t).catalog \in VISITED_CATALOGS'
                /\ SchemaId(Top(t).catalog, Top(t).schema) \in VISITED_SCHEMAS'
          /\ (pc[t] = "use_files" /\ Moves(t) /\ Top(t).use.filename \in VISITED_FILES)
             => /\ pc'[t] = "loop" /\ Len(stack'[t]) = Len(stack[t])
                /\ stack'[t][Len(stack[t])].stmts = Top(t).stmts
                /\ registries' = registries /\ disk' = disk
          /\ (pc[t] = "use_catalogs" /\ Moves(t) /\ Top(t).use.catalog \in VISITED_CATALOGS)
             => pc'[t] = "use_schemas" /\ stack'[t] = stack[t] /\ registries' = registries
          /\ (/\ pc[t] = "use_schemas" /\ Moves(t)
              /\ SchemaId(Top(t).use.catalog, Top(t).use.schema) \in VISITED_SCHEMAS)
             => pc'[t] = "use_parse" /\ stack'[t] = stack[t] /\ registries' = registries
          /\ (/\ pc[t] = "use_parse" /\ Opens(t)
              /\ Top(t).use.created_catalog = <<>> /\ Top(t).use.created_schema = <<>>)
             => LET nested == stack'[t][Len(stack'[t])]
                IN /\ nested.prelen = 0
                   /\ contents'[nested.filename] = {[readable |-> TRUE, text |-> nested.toks]}]_vars

\* After visit("c/s.sql", "c", "s") the call with USE c.s.t in the scope of
\* top.sql has returned the statements of c/s/t.sql, none of them a preamble's,
\* and c/s.sql, marked by the visit alone, has never been read.
C37_Witness ==
    \E t \in Threads :
        /\ pc[t] = "done" /\ result[t].kind = "ok" /\ calls = 2
        /\ result[t].stmts # <<>>
        /\ \A i \in 1..Len(result[t].stmts) :
               /\ ~result[t].stmts[i].preamble
               /\ result[t].stmts[i].meta.filename = TableFilename("c", "s", "t")
        /\ VISITED_FILES = {SchemaFilename("c", "s"), TableFilename("c", "s", "t")}
        /\ inserted[SchemaFilename("c", "s")] = 0
        /\ contents[SchemaFilename("c", "s")] = {}
        /\ VISITED_CATALOGS = {"c"} /\ VISITED_SCHEMAS = {SchemaId("c", "s")}
        /\ LOCATIONS = {}

\* What lpad(s, n, pad) is to be: the first n characters of s, or s after the
\* first n - len(s) characters of pad repeated.
Padded(s, n, pad) ==
    IF Len(s) >= n THEN UpTo(s, n)
    ELSE UpTo(repeat(pad, n - Len(s)), n - Len(s)) \o s

\* C31: a call of lpad(s, n, pad) that is done, through the package or on the
\* function itself, has returned the one row Padded(s, n, pad), of length n.
C31_LpadPads ==
    (call.name = "lpad" /\ call.stage = "done")
    => /\ outcome = Executed(<<Padded(call.args[1].rows[1], call.args[2].rows[1],
                                      call.args[3].rows[1])>>)
       /\ Len(outcome.rows[1]) = call.args[2].rows[1]

====
